---- MODULE Spec2Model ----
(***************************************************************************)
(* Workspace isolation and role based access control of the viz-dashboard  *)
(* backend: memberships, invitations, and the workspace-scoped routes.     *)
(***************************************************************************)
EXTENDS Integers, FiniteSets, Sequences, TLC

(***************************************************************************)
(* The database tables, the process-wide signing key, the clock, and the   *)
(* response of the request handled last.                                   *)
(***************************************************************************)
VARIABLES
    members,                 \* workspace_members rows
    workspaces,              \* workspaces rows
    current_workspace_id,    \* users.current_workspace_id, per user
    INVITATION_SECRET_KEY,   \* invitations.INVITATION_SECRET_KEY
    tokens,                  \* invitation tokens issued so far (sent by e-mail)
    now,                     \* the clock, in days
    dashboards,              \* dashboards rows
    charts,                  \* charts rows
    connections,             \* connections rows
    data_sources,            \* data_sources rows
    connection_permissions,  \* connection_permissions rows
    resp,                    \* the last response of a member or invitation route
    redeemed,                \* history: the invitations that produced a membership
    workspace_settings,      \* workspace_settings rows
    users,                   \* users rows
    sessions,                \* the requests in flight, each with its own Session
    entities,                \* rows written through the mapper events
    flush_exc                \* what the last flush of such a row raised

vars == <<members, workspaces, current_workspace_id, INVITATION_SECRET_KEY,
          tokens, now, dashboards, charts, connections, data_sources,
          connection_permissions, resp, redeemed, workspace_settings, users,
          sessions, entities, flush_exc>>

None == "None"

\* SQL NULL in an integer column (ids start at 1)
NoId == 0

\* ------------------------------------------------------------------ bounds
MaxTokens == 1
MaxTime == 7
MaxRows == 2
MaxWorkspaces == 4
MaxEntities == 2
MaxGrants == 1

\* ----------------------------------------------------------- fixed universe
Users == {1, 2, 3}
WorkspaceIds == {1, 2}
Roles == {"admin", "editor", "viewer"}
SECRET_KEY == "secret"

\* users.email as registered (case kept as typed)
user_email(u) ==
    CASE u = 1 -> "u1@x.com"
      [] u = 2 -> "U2@x.com"
      [] OTHER -> "u3@x.com"

\* str.lower() on the e-mail addresses the model uses
lower(s) ==
    CASE s = "U2@x.com" -> "u2@x.com"
      [] s = "U3@X.COM" -> "u3@x.com"
      [] OTHER -> s

\* ------------------------------------------------------------- permissions
ROLE_HIERARCHY_get(role) ==
    CASE role = "admin" -> 3
      [] role = "editor" -> 2
      [] role = "viewer" -> 1
      [] OTHER -> 0

\* the rows of (workspace_id, user_id); the unique constraint keeps at most one
member_rows(db, user_id, workspace_id) ==
    {m \in db.members : m.user_id = user_id /\ m.workspace_id = workspace_id}

get_user_role(db, user_id, workspace_id) ==
    IF member_rows(db, user_id, workspace_id) = {}
    THEN None
    ELSE (CHOOSE m \in member_rows(db, user_id, workspace_id) : TRUE).role

check_permission_exact(db, user_id, workspace_id, required_role) ==
    LET user_role == get_user_role(db, user_id, workspace_id)
    IN  IF user_role = None
        THEN FALSE
        ELSE ROLE_HIERARCHY_get(user_role) = ROLE_HIERARCHY_get(required_role)

check_permission(db, user_id, workspace_id, required_role) ==
    LET user_role == get_user_role(db, user_id, workspace_id)
    IN  IF user_role = None
        THEN FALSE
        ELSE ROLE_HIERARCHY_get(user_role) >= ROLE_HIERARCHY_get(required_role)

is_workspace_admin(db, user_id, workspace_id) ==
    check_permission(db, user_id, workspace_id, "admin")

is_workspace_editor_or_above(db, user_id, workspace_id) ==
    check_permission(db, user_id, workspace_id, "editor")

can_modify_member_role_self_allowed(db, actor_user_id, target_user_id, workspace_id, new_role) ==
    IF ~is_workspace_admin(db, actor_user_id, workspace_id)
    THEN FALSE
    ELSE ROLE_HIERARCHY_get(new_role)
            <= ROLE_HIERARCHY_get(get_user_role(db, actor_user_id, workspace_id))

can_modify_member_role_editor_allowed(db, actor_user_id, target_user_id, workspace_id, new_role) ==
    IF actor_user_id = target_user_id
    THEN FALSE
    ELSE IF ~is_workspace_editor_or_above(db, actor_user_id, workspace_id)
    THEN FALSE
    ELSE ROLE_HIERARCHY_get(new_role)
            <= ROLE_HIERARCHY_get(get_user_role(db, actor_user_id, workspace_id))

can_modify_member_role(db, actor_user_id, target_user_id, workspace_id, new_role) ==
    IF actor_user_id = target_user_id
    THEN FALSE
    ELSE IF ~is_workspace_admin(db, actor_user_id, workspace_id)
    THEN FALSE
    ELSE ROLE_HIERARCHY_get(new_role)
            <= ROLE_HIERARCHY_get(get_user_role(db, actor_user_id, workspace_id))

\* the database as the handlers see it
DB ==
    [members |-> members, workspaces |-> workspaces,
     current_workspace_id |-> current_workspace_id,
     dashboards |-> dashboards, charts |-> charts, connections |-> connections,
     data_sources |-> data_sources,
     connection_permissions |-> connection_permissions,
     workspace_settings |-> workspace_settings, users |-> users]

workspace_rows(db, workspace_id) == {w \in db.workspaces : w.id = workspace_id}

\* ------------------------------------------------------------- invitations
INVITATION_TOKEN_EXPIRE_DAYS == 7

\* jwt.encode(payload, key, algorithm='HS256'): only a holder of the key can
\* produce the signature, so the signature is modelled by the key that made it
jwt_encode(payload, key) == [wellformed |-> TRUE, payload |-> payload, sig |-> key]

\* jwt.decode(token, key, algorithms=['HS256']): the structure and the signature
\* are verified first, then the exp claim (expired when exp <= now)
jwt_decode(token, key) ==
    IF ~token.wellformed \/ token.sig # key
    THEN [ok |-> FALSE, exc |-> "InvalidTokenError"]
    ELSE IF "exp" \in DOMAIN token.payload /\ token.payload.exp <= now
    THEN [ok |-> FALSE, exc |-> "ExpiredSignatureError"]
    ELSE [ok |-> TRUE, payload |-> token.payload]

create_invitation_token(workspace_id, email, role, invited_by) ==
    IF INVITATION_SECRET_KEY = None
    THEN [ok |-> FALSE, exc |-> "InvitationError"]
    ELSE IF role \notin {"admin", "editor", "viewer"}
    THEN [ok |-> FALSE, exc |-> "InvitationError"]
    ELSE [ok |-> TRUE,
          token |-> jwt_encode([type |-> "workspace_invitation",
                                workspace_id |-> workspace_id,
                                email |-> lower(email),
                                role |-> role,
                                invited_by |-> invited_by,
                                iat |-> now,
                                exp |-> now + INVITATION_TOKEN_EXPIRE_DAYS],
                               INVITATION_SECRET_KEY)]

decode_invitation_token_expired_as_invalid(token) ==
    IF INVITATION_SECRET_KEY = None
    THEN [ok |-> FALSE, exc |-> "InvitationError"]
    ELSE LET d == jwt_decode(token, INVITATION_SECRET_KEY)
         IN  IF ~d.ok
             THEN [ok |-> FALSE, exc |-> "InvitationTokenInvalid"]
             ELSE IF "type" \notin DOMAIN d.payload
                     \/ d.payload.type # "workspace_invitation"
             THEN [ok |-> FALSE, exc |-> "InvitationTokenInvalid"]
             ELSE IF ~({"workspace_id", "email", "role", "invited_by"}
                          \subseteq DOMAIN d.payload)
             THEN [ok |-> FALSE, exc |-> "InvitationTokenInvalid"]
             ELSE [ok |-> TRUE, payload |-> d.payload]

decode_invitation_token_unverified(token) ==
    IF INVITATION_SECRET_KEY = None
    THEN IF ~token.wellformed
         THEN [ok |-> FALSE, exc |-> "InvitationTokenInvalid"]
         ELSE [ok |-> TRUE, payload |-> token.payload]
    ELSE LET d == jwt_decode(token, INVITATION_SECRET_KEY)
         IN  IF ~d.ok
             THEN IF d.exc = "ExpiredSignatureError"
                  THEN [ok |-> FALSE, exc |-> "InvitationTokenExpired"]
                  ELSE [ok |-> FALSE, exc |-> "InvitationTokenInvalid"]
             ELSE IF "type" \notin DOMAIN d.payload
                     \/ d.payload.type # "workspace_invitation"
             THEN [ok |-> FALSE, exc |-> "InvitationTokenInvalid"]
             ELSE IF ~({"workspace_id", "email", "role", "invited_by"}
                          \subseteq DOMAIN d.payload)
             THEN [ok |-> FALSE, exc |-> "InvitationTokenInvalid"]
             ELSE [ok |-> TRUE, payload |-> d.payload]

decode_invitation_token(token) ==
    IF INVITATION_SECRET_KEY = None
    THEN [ok |-> FALSE, exc |-> "InvitationError"]
    ELSE LET d == jwt_decode(token, INVITATION_SECRET_KEY)
         IN  IF ~d.ok
             THEN IF d.exc = "ExpiredSignatureError"
                  THEN [ok |-> FALSE, exc |-> "InvitationTokenExpired"]
                  ELSE [ok |-> FALSE, exc |-> "InvitationTokenInvalid"]
             ELSE IF "type" \notin DOMAIN d.payload
                     \/ d.payload.type # "workspace_invitation"
             THEN [ok |-> FALSE, exc |-> "InvitationTokenInvalid"]
             ELSE IF ~({"workspace_id", "email", "role", "invited_by"}
                          \subseteq DOMAIN d.payload)
             THEN [ok |-> FALSE, exc |-> "InvitationTokenInvalid"]
             ELSE [ok |-> TRUE, payload |-> d.payload]

validate_invitation_token_any_email(token, email) ==
    LET d == decode_invitation_token(token)
    IN  IF ~d.ok
        THEN CASE d.exc = "InvitationTokenExpired" ->
                    [ok |-> FALSE, status |-> 400, detail |-> "Invitation link has expired"]
               [] d.exc = "InvitationTokenInvalid" ->
                    [ok |-> FALSE, status |-> 400, detail |-> "Invalid invitation link"]
               [] OTHER ->
                    [ok |-> FALSE, status |-> 500, detail |-> "Internal server error"]
        ELSE [ok |-> TRUE, payload |-> d.payload]

\* the HTTPException validate_invitation_token raises, or the payload
validate_invitation_token(token, email) ==
    LET d == decode_invitation_token(token)
    IN  IF ~d.ok
        THEN CASE d.exc = "InvitationTokenExpired" ->
                    [ok |-> FALSE, status |-> 400, detail |-> "Invitation link has expired"]
               [] d.exc = "InvitationTokenInvalid" ->
                    [ok |-> FALSE, status |-> 400, detail |-> "Invalid invitation link"]
               [] OTHER ->
                    [ok |-> FALSE, status |-> 500, detail |-> "Internal server error"]
        ELSE IF lower(d.payload.email) # lower(email)
        THEN [ok |-> FALSE, status |-> 400,
              detail |-> "This invitation is for a different email address"]
        ELSE [ok |-> TRUE, payload |-> d.payload]

check_existing_membership(db, user_id, workspace_id) ==
    member_rows(db, user_id, workspace_id) # {}

Member(workspace_id, user_id, role, invited_by) ==
    [workspace_id |-> workspace_id, user_id |-> user_id, role |-> role,
     invited_by |-> invited_by]

\* rows of workspaces (a slug is the base followed by the counters appended
\* to it), workspace_settings and users
Workspace(id, created_by, slug) == [id |-> id, created_by |-> created_by, slug |-> slug]
WorkspaceSettings(workspace_id) == [workspace_id |-> workspace_id]
User(id, name) == [id |-> id, username |-> name]

\* users.username as registered
username(u) ==
    CASE u = 1 -> "u1"
      [] u = 2 -> "u2"
      [] OTHER -> "u3"

\* the requests that can be in flight together, and a Session with no request
Sessions == {1, 2}
Idle == [pc |-> "idle"]

NoBody == [workspace_id |-> NoId, role |-> None]

accept_invitation_no_member_check(db, token, user_id, email) ==
    LET v == validate_invitation_token(token, email)
    IN  IF ~v.ok
        THEN [status |-> v.status, detail |-> v.detail, members |-> db.members,
              body |-> NoBody]
        ELSE IF workspace_rows(db, v.payload.workspace_id) = {}
        THEN [status |-> 404, detail |-> "Workspace not found", members |-> db.members,
              body |-> NoBody]
        ELSE [status |-> 200, detail |-> "ok",
              members |-> {m \in db.members :
                              ~(m.user_id = user_id
                                /\ m.workspace_id = v.payload.workspace_id)}
                          \cup {Member(v.payload.workspace_id, user_id,
                                       v.payload.role, v.payload.invited_by)},
              body |-> [workspace_id |-> v.payload.workspace_id,
                        role |-> v.payload.role]]

accept_invitation_inviter_is_self(db, token, user_id, email) ==
    LET v == validate_invitation_token(token, email)
    IN  IF ~v.ok
        THEN [status |-> v.status, detail |-> v.detail, members |-> db.members,
              body |-> NoBody]
        ELSE IF check_existing_membership(db, user_id, v.payload.workspace_id)
        THEN [status |-> 400, detail |-> "You are already a member of this workspace",
              members |-> db.members, body |-> NoBody]
        ELSE IF workspace_rows(db, v.payload.workspace_id) = {}
        THEN [status |-> 404, detail |-> "Workspace not found", members |-> db.members,
              body |-> NoBody]
        ELSE [status |-> 200, detail |-> "ok",
              members |-> db.members \cup {Member(v.payload.workspace_id, user_id,
                                                  v.payload.role, user_id)},
              body |-> [workspace_id |-> v.payload.workspace_id,
                        role |-> v.payload.role]]

accept_invitation(db, token, user_id, email) ==
    LET v == validate_invitation_token(token, email)
    IN  IF ~v.ok
        THEN [status |-> v.status, detail |-> v.detail, members |-> db.members,
              body |-> NoBody]
        ELSE IF check_existing_membership(db, user_id, v.payload.workspace_id)
        THEN [status |-> 400, detail |-> "You are already a member of this workspace",
              members |-> db.members, body |-> NoBody]
        ELSE IF workspace_rows(db, v.payload.workspace_id) = {}
        THEN [status |-> 404, detail |-> "Workspace not found", members |-> db.members,
              body |-> NoBody]
        ELSE [status |-> 200, detail |-> "ok",
              members |-> db.members \cup {Member(v.payload.workspace_id, user_id,
                                                  v.payload.role, v.payload.invited_by)},
              body |-> [workspace_id |-> v.payload.workspace_id,
                        role |-> v.payload.role]]


\* --------------------------------------------------- workspace member routes
\* what is kept of a handled request: the operation, the response's status and
\* detail, the role the caller held in the addressed workspace when the request
\* arrived, and whether the caller addressed their own membership
Response(op, status, detail, actor_role, self) ==
    [op |-> op, status |-> status, detail |-> detail, actor_role |-> actor_role,
     self |-> self]

invite_member_editor_allowed(db, current_user, workspace_id, email, role) ==
    IF ~is_workspace_editor_or_above(db, current_user, workspace_id)
    THEN [status |-> 404, detail |-> "Workspace not found", sent |-> {}]
    ELSE IF workspace_rows(db, workspace_id) = {}
    THEN [status |-> 404, detail |-> "Workspace not found", sent |-> {}]
    ELSE IF \E u \in Users : user_email(u) = email
                             /\ check_existing_membership(db, u, workspace_id)
    THEN [status |-> 400, detail |-> "User is already a member of this workspace",
          sent |-> {}]
    ELSE LET t == create_invitation_token(workspace_id, email, role, current_user)
         IN  IF ~t.ok
             THEN [status |-> 500, detail |-> t.exc, sent |-> {}]
             ELSE [status |-> 200, detail |-> "Invitation sent successfully",
                   sent |-> {t.token}]

\* POST /workspaces/{workspace_id}/invite; the token leaves by e-mail
invite_member(db, current_user, workspace_id, email, role) ==
    IF ~is_workspace_admin(db, current_user, workspace_id)
    THEN [status |-> 404, detail |-> "Workspace not found", sent |-> {}]
    ELSE IF workspace_rows(db, workspace_id) = {}
    THEN [status |-> 404, detail |-> "Workspace not found", sent |-> {}]
    ELSE IF \E u \in Users : user_email(u) = email
                             /\ check_existing_membership(db, u, workspace_id)
    THEN [status |-> 400, detail |-> "User is already a member of this workspace",
          sent |-> {}]
    ELSE LET t == create_invitation_token(workspace_id, email, role, current_user)
         IN  IF ~t.ok
             THEN [status |-> 500, detail |-> t.exc, sent |-> {}]
             ELSE [status |-> 200, detail |-> "Invitation sent successfully",
                   sent |-> {t.token}]

remove_member_creator_unchecked(db, current_user, workspace_id, user_id) ==
    IF ~is_workspace_admin(db, current_user, workspace_id)
    THEN [status |-> 404, detail |-> "Workspace not found", members |-> db.members]
    ELSE IF user_id = current_user
    THEN [status |-> 400, detail |-> "Cannot remove yourself from workspace",
          members |-> db.members]
    ELSE IF member_rows(db, user_id, workspace_id) = {}
    THEN [status |-> 404, detail |-> "Member not found", members |-> db.members]
    ELSE [status |-> 204, detail |-> "ok",
          members |-> db.members \ member_rows(db, user_id, workspace_id)]

\* DELETE /workspaces/{workspace_id}/members/{user_id}
remove_member(db, current_user, workspace_id, user_id) ==
    IF ~is_workspace_admin(db, current_user, workspace_id)
    THEN [status |-> 404, detail |-> "Workspace not found", members |-> db.members]
    ELSE IF user_id = current_user
    THEN [status |-> 400, detail |-> "Cannot remove yourself from workspace",
          members |-> db.members]
    ELSE IF \E w \in workspace_rows(db, workspace_id) : w.created_by = user_id
    THEN [status |-> 400, detail |-> "Cannot remove workspace creator",
          members |-> db.members]
    ELSE IF member_rows(db, user_id, workspace_id) = {}
    THEN [status |-> 404, detail |-> "Member not found", members |-> db.members]
    ELSE [status |-> 204, detail |-> "ok",
          members |-> db.members \ member_rows(db, user_id, workspace_id)]

\* PATCH /workspaces/{workspace_id}/members/{user_id}/role
update_member_role(db, current_user, workspace_id, user_id, new_role) ==
    IF new_role = None \/ new_role \notin {"admin", "editor", "viewer"}
    THEN [status |-> 400, detail |-> "Invalid role. Must be admin, editor, or viewer",
          members |-> db.members]
    ELSE IF ~can_modify_member_role(db, current_user, user_id, workspace_id, new_role)
    THEN [status |-> 403, detail |-> "Cannot modify this member's role",
          members |-> db.members]
    ELSE IF member_rows(db, user_id, workspace_id) = {}
    THEN [status |-> 404, detail |-> "Member not found", members |-> db.members]
    ELSE [status |-> 200, detail |-> "ok",
          members |-> {IF m \in member_rows(db, user_id, workspace_id)
                       THEN [m EXCEPT !.role = new_role]
                       ELSE m : m \in db.members}]

validate_workspace_ownership(db, user_id, workspace_id) ==
    \E w \in workspace_rows(db, workspace_id) : w.created_by = user_id

\* ------------------------------------------------------- workspace context
\* the X-Workspace-ID header values a client sends (None: header absent)
Headers == {None, "1", "2", "abc"}

\* int(workspace_header); 0 stands for ValueError
int(s) ==
    CASE s = "1" -> 1
      [] s = "2" -> 2
      [] OTHER -> 0

\* main.py does not install WorkspaceIsolationMiddleware, so request.state
\* carries no workspace_id when a route runs
Request(header) == [state_workspace_id |-> NoId, header |-> header]

\* the same request carrying a workspace_id query parameter; the routes that
\* call get_workspace_id declare no workspace_id path parameter
RequestWithQuery(header, query) ==
    [state_workspace_id |-> NoId, header |-> header,
     path_workspace_id |-> None, query_workspace_id |-> query]

\* the row get_current_user loads
get_current_user(db, user_id) ==
    [id |-> user_id, email |-> user_email(user_id),
     current_workspace_id |-> db.current_workspace_id[user_id]]

get_workspace_id(request, current_user) ==
    IF request.state_workspace_id # NoId
    THEN [ok |-> TRUE, workspace_id |-> request.state_workspace_id]
    ELSE IF request.header # None
    THEN IF int(request.header) = 0
         THEN [ok |-> FALSE, status |-> 400,
               detail |-> "Invalid workspace ID in header"]
         ELSE [ok |-> TRUE, workspace_id |-> int(request.header)]
    ELSE IF current_user.current_workspace_id # NoId
    THEN [ok |-> TRUE, workspace_id |-> current_user.current_workspace_id]
    ELSE [ok |-> FALSE, status |-> 400,
          detail |-> "No workspace context available. Please select a workspace."]

\* ------------------------------------------------------------ resource rows
Names == {"a", "b"}
Configs == {"pw1", "pw2"}

\* INTEGER PRIMARY KEY of SQLite: one more than the largest id in the table
next_id(rows) ==
    IF rows = {} THEN 1
    ELSE (CHOOSE r \in rows : \A q \in rows : q.id <= r.id).id + 1

\* Fernet encryption under the deployment's key, and its inverse
encrypt_connection_config(config) == <<"fernet", config>>
decrypt_connection_config(encrypted_config) == encrypted_config[2]

\* what a handler returns: the status and detail of the response, the rows the
\* response exposes, the response body, and the database after the commit
Result(status, detail, rows, body, db) ==
    [status |-> status, detail |-> detail, rows |-> rows, body |-> body, db |-> db]
HTTPException(db, status, detail) == Result(status, detail, {}, {}, db)

\* ---------------------------------------------------------------- dashboards
list_dashboards(db, user_id, request) ==
    LET ctx == get_workspace_id(request, get_current_user(db, user_id))
    IN  IF ~ctx.ok THEN HTTPException(db, ctx.status, ctx.detail)
        ELSE LET rows == {d \in db.dashboards : d.workspace_id = ctx.workspace_id}
             IN  Result(200, "ok", rows, rows, db)

get_dashboard(db, user_id, request, dashboard_id) ==
    LET ctx == get_workspace_id(request, get_current_user(db, user_id))
    IN  IF ~ctx.ok THEN HTTPException(db, ctx.status, ctx.detail)
        ELSE LET rows == {d \in db.dashboards : d.id = dashboard_id
                                             /\ d.workspace_id = ctx.workspace_id}
             IN  IF rows = {} THEN HTTPException(db, 404, "Dashboard not found")
                 ELSE Result(200, "ok", rows, rows, db)

create_dashboard(db, user_id, request, name) ==
    LET ctx == get_workspace_id(request, get_current_user(db, user_id))
    IN  IF ~ctx.ok THEN HTTPException(db, ctx.status, ctx.detail)
        ELSE IF ~is_workspace_editor_or_above(db, user_id, ctx.workspace_id)
        THEN HTTPException(db, 404, "Resource not found")
        ELSE LET dashboard == [id |-> next_id(db.dashboards),
                               workspace_id |-> ctx.workspace_id,
                               created_by |-> user_id, name |-> name,
                               is_public |-> FALSE]
             IN  Result(201, "ok", {dashboard}, {dashboard},
                        [db EXCEPT !.dashboards = @ \cup {dashboard}])

update_dashboard(db, user_id, request, dashboard_id, name) ==
    LET ctx == get_workspace_id(request, get_current_user(db, user_id))
    IN  IF ~ctx.ok THEN HTTPException(db, ctx.status, ctx.detail)
        ELSE IF ~is_workspace_editor_or_above(db, user_id, ctx.workspace_id)
        THEN HTTPException(db, 404, "You need editor or admin role to update dashboards")
        ELSE LET rows == {d \in db.dashboards : d.id = dashboard_id
                                             /\ d.workspace_id = ctx.workspace_id}
             IN  IF rows = {} THEN HTTPException(db, 404, "Dashboard not found")
                 ELSE IF ~is_workspace_admin(db, user_id, ctx.workspace_id)
                         /\ \E d \in rows : d.created_by # user_id
                 THEN HTTPException(db, 404, "You can only update your own dashboards")
                 ELSE LET new == {[d EXCEPT !.name = name] : d \in rows}
                      IN  Result(200, "ok", new, new,
                                 [db EXCEPT !.dashboards = (@ \ rows) \cup new])

delete_dashboard_any_workspace(db, user_id, request, dashboard_id) ==
    LET ctx == get_workspace_id(request, get_current_user(db, user_id))
    IN  IF ~ctx.ok THEN HTTPException(db, ctx.status, ctx.detail)
        ELSE IF ~is_workspace_editor_or_above(db, user_id, ctx.workspace_id)
        THEN HTTPException(db, 404, "You need editor or admin role to delete dashboards")
        ELSE LET rows == {d \in db.dashboards : d.id = dashboard_id}
             IN  IF rows = {} THEN HTTPException(db, 404, "Dashboard not found")
                 ELSE IF ~is_workspace_admin(db, user_id, ctx.workspace_id)
                         /\ \E d \in rows : d.created_by # user_id
                 THEN HTTPException(db, 404, "You can only delete your own dashboards")
                 ELSE Result(204, "ok", {}, {}, [db EXCEPT !.dashboards = @ \ rows])

delete_dashboard(db, user_id, request, dashboard_id) ==
    LET ctx == get_workspace_id(request, get_current_user(db, user_id))
    IN  IF ~ctx.ok THEN HTTPException(db, ctx.status, ctx.detail)
        ELSE IF ~is_workspace_editor_or_above(db, user_id, ctx.workspace_id)
        THEN HTTPException(db, 404, "You need editor or admin role to delete dashboards")
        ELSE LET rows == {d \in db.dashboards : d.id = dashboard_id
                                             /\ d.workspace_id = ctx.workspace_id}
             IN  IF rows = {} THEN HTTPException(db, 404, "Dashboard not found")
                 ELSE IF ~is_workspace_admin(db, user_id, ctx.workspace_id)
                         /\ \E d \in rows : d.created_by # user_id
                 THEN HTTPException(db, 404, "You can only delete your own dashboards")
                 ELSE Result(204, "ok", {}, {}, [db EXCEPT !.dashboards = @ \ rows])

generate_share_token_any_editor(db, user_id, request, dashboard_id) ==
    LET ctx == get_workspace_id(request, get_current_user(db, user_id))
    IN  IF ~ctx.ok THEN HTTPException(db, ctx.status, ctx.detail)
        ELSE IF ~is_workspace_editor_or_above(db, user_id, ctx.workspace_id)
        THEN HTTPException(db, 404, "You need editor or admin role to share dashboards")
        ELSE LET rows == {d \in db.dashboards : d.id = dashboard_id
                                             /\ d.workspace_id = ctx.workspace_id}
             IN  IF rows = {} THEN HTTPException(db, 404, "Dashboard not found")
                 ELSE LET new == {[d EXCEPT !.is_public = TRUE] : d \in rows}
                      IN  Result(200, "ok", new, new,
                                 [db EXCEPT !.dashboards = (@ \ rows) \cup new])

\* POST /api/dashboards/{dashboard_id}/share: is_public stands for the public
\* token and its dates, which are set and cleared together with it
generate_share_token(db, user_id, request, dashboard_id) ==
    LET ctx == get_workspace_id(request, get_current_user(db, user_id))
    IN  IF ~ctx.ok THEN HTTPException(db, ctx.status, ctx.detail)
        ELSE IF ~is_workspace_editor_or_above(db, user_id, ctx.workspace_id)
        THEN HTTPException(db, 404, "You need editor or admin role to share dashboards")
        ELSE LET rows == {d \in db.dashboards : d.id = dashboard_id
                                             /\ d.workspace_id = ctx.workspace_id}
             IN  IF rows = {} THEN HTTPException(db, 404, "Dashboard not found")
                 ELSE IF ~is_workspace_admin(db, user_id, ctx.workspace_id)
                         /\ \E d \in rows : d.created_by # user_id
                 THEN HTTPException(db, 404, "You can only share your own dashboards")
                 ELSE LET new == {[d EXCEPT !.is_public = TRUE] : d \in rows}
                      IN  Result(200, "ok", new, new,
                                 [db EXCEPT !.dashboards = (@ \ rows) \cup new])

\* DELETE /api/dashboards/{dashboard_id}/share
revoke_share_token(db, user_id, request, dashboard_id) ==
    LET ctx == get_workspace_id(request, get_current_user(db, user_id))
    IN  IF ~ctx.ok THEN HTTPException(db, ctx.status, ctx.detail)
        ELSE IF ~is_workspace_editor_or_above(db, user_id, ctx.workspace_id)
        THEN HTTPException(db, 404,
                 "You need editor or admin role to revoke dashboard sharing")
        ELSE LET rows == {d \in db.dashboards : d.id = dashboard_id
                                             /\ d.workspace_id = ctx.workspace_id}
             IN  IF rows = {} THEN HTTPException(db, 404, "Dashboard not found")
                 ELSE IF ~is_workspace_admin(db, user_id, ctx.workspace_id)
                         /\ \E d \in rows : d.created_by # user_id
                 THEN HTTPException(db, 404,
                          "You can only revoke sharing for your own dashboards")
                 ELSE LET new == {[d EXCEPT !.is_public = FALSE] : d \in rows}
                      IN  Result(204, "ok", {}, {},
                                 [db EXCEPT !.dashboards = (@ \ rows) \cup new])

\* -------------------------------------------------------------------- charts
list_charts(db, user_id, request, data_source_id) ==
    LET ctx == get_workspace_id(request, get_current_user(db, user_id))
    IN  IF ~ctx.ok THEN HTTPException(db, ctx.status, ctx.detail)
        ELSE LET rows == {c \in db.charts :
                            /\ c.workspace_id = ctx.workspace_id
                            /\ (data_source_id # NoId
                                    => c.data_source_id = data_source_id)}
             IN  Result(200, "ok", rows, rows, db)

get_chart(db, user_id, request, chart_id) ==
    LET ctx == get_workspace_id(request, get_current_user(db, user_id))
    IN  IF ~ctx.ok THEN HTTPException(db, ctx.status, ctx.detail)
        ELSE LET rows == {c \in db.charts : c.id = chart_id
                                         /\ c.workspace_id = ctx.workspace_id}
             IN  IF rows = {} THEN HTTPException(db, 404, "Chart not found")
                 ELSE Result(200, "ok", rows, rows, db)

create_chart(db, user_id, request, name, data_source_id) ==
    LET ctx == get_workspace_id(request, get_current_user(db, user_id))
    IN  IF ~ctx.ok THEN HTTPException(db, ctx.status, ctx.detail)
        ELSE IF ~is_workspace_editor_or_above(db, user_id, ctx.workspace_id)
        THEN HTTPException(db, 403, "You don't have permission to create charts")
        ELSE IF data_source_id # NoId
                /\ ~\E ds \in db.data_sources : ds.id = data_source_id
                                               /\ ds.workspace_id = ctx.workspace_id
        THEN HTTPException(db, 404,
                 "Data source not found or doesn't belong to this workspace")
        ELSE LET new_chart == [id |-> next_id(db.charts),
                               workspace_id |-> ctx.workspace_id,
                               created_by |-> user_id, name |-> name,
                               data_source_id |-> data_source_id]
             IN  Result(201, "ok", {new_chart}, {new_chart},
                        [db EXCEPT !.charts = @ \cup {new_chart}])

\* data_source_id = NoId: the field is not sent
update_chart(db, user_id, request, chart_id, name, data_source_id) ==
    LET ctx == get_workspace_id(request, get_current_user(db, user_id))
    IN  IF ~ctx.ok THEN HTTPException(db, ctx.status, ctx.detail)
        ELSE IF ~is_workspace_editor_or_above(db, user_id, ctx.workspace_id)
        THEN HTTPException(db, 403, "You don't have permission to update charts")
        ELSE LET rows == {c \in db.charts : c.id = chart_id
                                         /\ c.workspace_id = ctx.workspace_id}
             IN  IF rows = {} THEN HTTPException(db, 404, "Chart not found")
                 ELSE IF data_source_id # NoId
                         /\ ~\E ds \in db.data_sources :
                                 ds.id = data_source_id
                                 /\ ds.workspace_id = ctx.workspace_id
                 THEN HTTPException(db, 404,
                          "Data source not found or doesn't belong to this workspace")
                 ELSE LET new == {[c EXCEPT !.name = name,
                                            !.data_source_id =
                                                IF data_source_id # NoId
                                                THEN data_source_id ELSE @]
                                  : c \in rows}
                      IN  Result(200, "ok", new, new,
                                 [db EXCEPT !.charts = (@ \ rows) \cup new])

delete_chart(db, user_id, request, chart_id) ==
    LET ctx == get_workspace_id(request, get_current_user(db, user_id))
    IN  IF ~ctx.ok THEN HTTPException(db, ctx.status, ctx.detail)
        ELSE IF ~is_workspace_editor_or_above(db, user_id, ctx.workspace_id)
        THEN HTTPException(db, 403, "You don't have permission to delete charts")
        ELSE LET rows == {c \in db.charts : c.id = chart_id
                                         /\ c.workspace_id = ctx.workspace_id}
             IN  IF rows = {} THEN HTTPException(db, 404, "Chart not found")
                 ELSE Result(204, "ok", {}, {}, [db EXCEPT !.charts = @ \ rows])

\* --------------------------------------------------------------- connections
\* the response dict of a connection, its config decrypted
connection_response(conn) ==
    [id |-> conn.id, name |-> conn.name,
     config |-> decrypt_connection_config(conn.config),
     created_by |-> conn.created_by]

list_connections(db, user_id, request) ==
    LET ctx == get_workspace_id(request, get_current_user(db, user_id))
    IN  IF ~ctx.ok THEN HTTPException(db, ctx.status, ctx.detail)
        ELSE LET rows == {c \in db.connections : c.workspace_id = ctx.workspace_id}
             IN  Result(200, "ok", rows, {connection_response(c) : c \in rows}, db)

get_connection(db, user_id, request, connection_id) ==
    LET ctx == get_workspace_id(request, get_current_user(db, user_id))
    IN  IF ~ctx.ok THEN HTTPException(db, ctx.status, ctx.detail)
        ELSE LET rows == {c \in db.connections : c.id = connection_id
                                              /\ c.workspace_id = ctx.workspace_id}
             IN  IF rows = {} THEN HTTPException(db, 404, "Connection not found")
                 ELSE Result(200, "ok", rows,
                             {connection_response(c) : c \in rows}, db)

create_connection(db, user_id, request, name, config) ==
    LET ctx == get_workspace_id(request, get_current_user(db, user_id))
    IN  IF ~ctx.ok THEN HTTPException(db, ctx.status, ctx.detail)
        ELSE IF ~is_workspace_editor_or_above(db, user_id, ctx.workspace_id)
        THEN HTTPException(db, 404, "Resource not found")
        ELSE IF \E c \in db.connections : c.name = name
                                         /\ c.workspace_id = ctx.workspace_id
        THEN HTTPException(db, 400,
                 "A connection with this name already exists in this workspace")
        ELSE LET connection == [id |-> next_id(db.connections),
                                workspace_id |-> ctx.workspace_id,
                                created_by |-> user_id, name |-> name,
                                config |-> encrypt_connection_config(config)]
             IN  Result(201, "ok", {connection},
                        {[id |-> connection.id, name |-> name, config |-> config,
                          created_by |-> user_id]},
                        [db EXCEPT !.connections = @ \cup {connection}])

update_connection(db, user_id, request, connection_id, name, config) ==
    LET ctx == get_workspace_id(request, get_current_user(db, user_id))
    IN  IF ~ctx.ok THEN HTTPException(db, ctx.status, ctx.detail)
        ELSE IF ~is_workspace_editor_or_above(db, user_id, ctx.workspace_id)
        THEN HTTPException(db, 404, "Resource not found")
        ELSE LET rows == {c \in db.connections : c.id = connection_id
                                              /\ c.workspace_id = ctx.workspace_id}
             IN  IF rows = {} THEN HTTPException(db, 404, "Connection not found")
                 ELSE LET new == {[c EXCEPT !.name = name,
                                            !.config = encrypt_connection_config(config)]
                                  : c \in rows}
                      IN  Result(200, "ok", new,
                                 {connection_response(c) : c \in new},
                                 [db EXCEPT !.connections = (@ \ rows) \cup new])

\* db.delete(connection) also deletes connection.data_sources and
\* connection.permissions (relationship cascade)
delete_connection(db, user_id, request, connection_id) ==
    LET ctx == get_workspace_id(request, get_current_user(db, user_id))
    IN  IF ~ctx.ok THEN HTTPException(db, ctx.status, ctx.detail)
        ELSE IF ~is_workspace_editor_or_above(db, user_id, ctx.workspace_id)
        THEN HTTPException(db, 404, "Resource not found")
        ELSE LET rows == {c \in db.connections : c.id = connection_id
                                              /\ c.workspace_id = ctx.workspace_id}
             IN  IF rows = {} THEN HTTPException(db, 404, "Connection not found")
                 ELSE Result(204, "ok", {}, {},
                             [db EXCEPT
                                !.connections = @ \ rows,
                                !.data_sources =
                                    {ds \in @ : ds.connection_id # connection_id},
                                !.connection_permissions =
                                    {cp \in @ : cp.connection_id # connection_id}])

\* -------------------------------------------------------------- data sources
list_data_sources(db, user_id, request, connection_id) ==
    LET ctx == get_workspace_id(request, get_current_user(db, user_id))
    IN  IF ~ctx.ok THEN HTTPException(db, ctx.status, ctx.detail)
        ELSE LET rows == {ds \in db.data_sources :
                            /\ ds.workspace_id = ctx.workspace_id
                            /\ (connection_id # NoId
                                    => ds.connection_id = connection_id)}
             IN  Result(200, "ok", rows, rows, db)

get_data_source(db, user_id, request, data_source_id) ==
    LET ctx == get_workspace_id(request, get_current_user(db, user_id))
    IN  IF ~ctx.ok THEN HTTPException(db, ctx.status, ctx.detail)
        ELSE LET rows == {ds \in db.data_sources : ds.id = data_source_id
                                                /\ ds.workspace_id = ctx.workspace_id}
             IN  IF rows = {} THEN HTTPException(db, 404, "Data source not found")
                 ELSE Result(200, "ok", rows, rows, db)

create_data_source(db, user_id, request, connection_id, source_identifier) ==
    LET ctx == get_workspace_id(request, get_current_user(db, user_id))
    IN  IF ~ctx.ok THEN HTTPException(db, ctx.status, ctx.detail)
        ELSE IF ~is_workspace_editor_or_above(db, user_id, ctx.workspace_id)
        THEN HTTPException(db, 404, "Resource not found")
        ELSE IF ~\E c \in db.connections : c.id = connection_id
                                          /\ c.workspace_id = ctx.workspace_id
        THEN HTTPException(db, 404, "Connection not found")
        ELSE IF \E ds \in db.data_sources :
                    ds.connection_id = connection_id
                    /\ ds.source_identifier = source_identifier
        THEN HTTPException(db, 400,
                 "A data source with this identifier already exists for this connection")
        ELSE LET data_source == [id |-> next_id(db.data_sources),
                                 workspace_id |-> ctx.workspace_id,
                                 created_by |-> user_id,
                                 connection_id |-> connection_id,
                                 source_identifier |-> source_identifier]
             IN  Result(201, "ok", {data_source}, {data_source},
                        [db EXCEPT !.data_sources = @ \cup {data_source}])

update_data_source(db, user_id, request, data_source_id, source_identifier) ==
    LET ctx == get_workspace_id(request, get_current_user(db, user_id))
    IN  IF ~ctx.ok THEN HTTPException(db, ctx.status, ctx.detail)
        ELSE IF ~is_workspace_editor_or_above(db, user_id, ctx.workspace_id)
        THEN HTTPException(db, 404, "Resource not found")
        ELSE LET rows == {ds \in db.data_sources : ds.id = data_source_id
                                                /\ ds.workspace_id = ctx.workspace_id}
             IN  IF rows = {} THEN HTTPException(db, 404, "Data source not found")
                 ELSE IF \E ds \in rows, other \in db.data_sources \ rows :
                            /\ other.connection_id = ds.connection_id
                            /\ other.source_identifier = source_identifier
                 THEN \* the commit fails on the constraint uq_connection_source
                      HTTPException(db, 500, "IntegrityError")
                 ELSE LET new == {[ds EXCEPT !.source_identifier = source_identifier]
                                  : ds \in rows}
                      IN  Result(200, "ok", new, new,
                                 [db EXCEPT !.data_sources = (@ \ rows) \cup new])

delete_data_source(db, user_id, request, data_source_id) ==
    LET ctx == get_workspace_id(request, get_current_user(db, user_id))
    IN  IF ~ctx.ok THEN HTTPException(db, ctx.status, ctx.detail)
        ELSE IF ~is_workspace_editor_or_above(db, user_id, ctx.workspace_id)
        THEN HTTPException(db, 404, "Resource not found")
        ELSE LET rows == {ds \in db.data_sources : ds.id = data_source_id
                                                /\ ds.workspace_id = ctx.workspace_id}
             IN  IF rows = {} THEN HTTPException(db, 404, "Data source not found")
                 ELSE Result(204, "ok", {}, {},
                             [db EXCEPT !.data_sources = @ \ rows])

\* the databases or folders the external system lists for a configuration
catalogue(config) == {<<"item of", config>>}

\* reachable: whether the external system answers (any exception is caught and
\* reported in a 200 response with success false)
discover_data_sources(db, user_id, request, connection_id, reachable) ==
    LET ctx == get_workspace_id(request, get_current_user(db, user_id))
    IN  IF ~ctx.ok THEN HTTPException(db, ctx.status, ctx.detail)
        ELSE LET rows == {c \in db.connections : c.id = connection_id
                                              /\ c.workspace_id = ctx.workspace_id}
             IN  IF rows = {} THEN HTTPException(db, 404, "Connection not found")
                 ELSE IF ~reachable
                 THEN Result(200, "Discovery failed", {}, {}, db)
                 ELSE Result(200, "ok", rows,
                             UNION {catalogue(decrypt_connection_config(c.config))
                                    : c \in rows},
                             db)

\* ------------------------------------------------- connection permissions
get_user_connection_permission(db, user_id, connection_id) ==
    LET perms == {cp \in db.connection_permissions :
                    cp.connection_id = connection_id /\ cp.user_id = user_id}
    IN  IF perms = {} THEN None ELSE (CHOOSE cp \in perms : TRUE).permission_level

permission_hierarchy_get(level) ==
    CASE level = "owner" -> 3
      [] level = "editor" -> 2
      [] level = "viewer" -> 1
      [] OTHER -> 0

check_connection_access_any_grant(db, user_id, connection_id, required_permission) ==
    LET conns == {c \in db.connections : c.id = connection_id}
    IN  IF conns = {} THEN FALSE
        ELSE LET connection == CHOOSE c \in conns : TRUE
             IN  IF connection.created_by = user_id THEN TRUE
                 ELSE IF get_user_role(db, user_id, connection.workspace_id) = "admin"
                 THEN TRUE
                 ELSE get_user_connection_permission(db, user_id, connection_id) # None

check_connection_access(db, user_id, connection_id, required_permission) ==
    LET conns == {c \in db.connections : c.id = connection_id}
    IN  IF conns = {} THEN FALSE
        ELSE LET connection == CHOOSE c \in conns : TRUE
             IN  IF connection.created_by = user_id THEN TRUE
                 ELSE IF get_user_role(db, user_id, connection.workspace_id) = "admin"
                 THEN TRUE
                 ELSE LET conn_permission ==
                              get_user_connection_permission(db, user_id, connection_id)
                      IN  IF conn_permission = None THEN FALSE
                          ELSE permission_hierarchy_get(conn_permission)
                                  >= permission_hierarchy_get(required_permission)

can_manage_connection_permissions_editor(db, user_id, connection_id) ==
    LET conns == {c \in db.connections : c.id = connection_id}
    IN  IF conns = {} THEN FALSE
        ELSE LET connection == CHOOSE c \in conns : TRUE
             IN  IF connection.created_by = user_id THEN TRUE
                 ELSE IF get_user_role(db, user_id, connection.workspace_id) = "admin"
                 THEN TRUE
                 ELSE get_user_connection_permission(db, user_id, connection_id)
                         \in {"owner", "editor"}

can_manage_connection_permissions(db, user_id, connection_id) ==
    LET conns == {c \in db.connections : c.id = connection_id}
    IN  IF conns = {} THEN FALSE
        ELSE LET connection == CHOOSE c \in conns : TRUE
             IN  IF connection.created_by = user_id THEN TRUE
                 ELSE IF get_user_role(db, user_id, connection.workspace_id) = "admin"
                 THEN TRUE
                 ELSE get_user_connection_permission(db, user_id, connection_id)
                         = "owner"

\* the table's CHECK constraint refuses a level outside owner, editor, viewer
\* when the INSERT or the UPDATE is flushed (IntegrityError, nothing written)
grant_connection_permission(db, connection_id, user_id, permission_level, granted_by) ==
    LET conns == {c \in db.connections : c.id = connection_id}
        existing == {cp \in db.connection_permissions :
                        cp.connection_id = connection_id /\ cp.user_id = user_id}
        permission == [id |-> next_id(db.connection_permissions),
                       connection_id |-> connection_id, user_id |-> user_id,
                       permission_level |-> permission_level,
                       granted_by |-> granted_by]
    IN  IF conns = {} THEN HTTPException(db, 404, "Connection not found")
        ELSE IF ~\E u \in db.users : u.id = user_id
        THEN HTTPException(db, 404, "User not found")
        ELSE IF member_rows(db, user_id, (CHOOSE c \in conns : TRUE).workspace_id) = {}
        THEN HTTPException(db, 400, "User is not a member of this workspace")
        ELSE IF permission_level \notin {"owner", "editor", "viewer"}
        THEN HTTPException(db, 500, "IntegrityError")
        ELSE IF existing # {}
        THEN LET new == {[cp EXCEPT !.permission_level = permission_level,
                                    !.granted_by = granted_by] : cp \in existing}
             IN  Result(200, "ok", new, new,
                        [db EXCEPT !.connection_permissions = (@ \ existing) \cup new])
        ELSE Result(200, "ok", {permission}, {permission},
                    [db EXCEPT !.connection_permissions = @ \cup {permission}])

\* returns whether a row was deleted (body)
revoke_connection_permission(db, connection_id, user_id) ==
    LET permission == {cp \in db.connection_permissions :
                          cp.connection_id = connection_id /\ cp.user_id = user_id}
    IN  Result(200, "ok", {}, permission # {},
               [db EXCEPT !.connection_permissions = @ \ permission])

\* the ids of the connections of the workspace the user can access
get_user_accessible_connections(db, user_id, workspace_id) ==
    IF get_user_role(db, user_id, workspace_id) = "admin"
    THEN {c.id : c \in {c \in db.connections : c.workspace_id = workspace_id}}
    ELSE LET created_ids ==
                 {c.id : c \in {c \in db.connections :
                                   /\ c.workspace_id = workspace_id
                                   /\ c.created_by = user_id}}
             permitted_ids ==
                 {cp.connection_id :
                     cp \in {cp \in db.connection_permissions :
                                /\ cp.user_id = user_id
                                /\ \E c \in db.connections :
                                      /\ c.id = cp.connection_id
                                      /\ c.workspace_id = workspace_id}}
         IN  created_ids \cup permitted_ids

\* ----------------------------------------------------------------- actions
InviteEmails == {"u2@x.com", "U3@X.COM"}

\* what a client can present besides the tokens that were sent: a malformed
\* string, a token signed with another key, an access token (same key, no type)
Garbage == [wellformed |-> FALSE, payload |-> [type |-> "garbage"], sig |-> "none"]
Forged ==
    jwt_encode([type |-> "workspace_invitation", workspace_id |-> 1,
                email |-> "u3@x.com", role |-> "admin", invited_by |-> 1,
                iat |-> 0, exp |-> 1000], "attacker")
AccessToken ==
    jwt_encode([sub |-> 3, role |-> "admin", exp |-> 1000], SECRET_KEY)
\* an access token whose 30 minutes have passed, and a token of the right type
\* and key that lacks the role and the inviter
ExpiredAccessToken ==
    jwt_encode([sub |-> 3, role |-> "admin", exp |-> 0], SECRET_KEY)
Incomplete ==
    jwt_encode([type |-> "workspace_invitation", workspace_id |-> 1,
                email |-> "u3@x.com", exp |-> 1000], SECRET_KEY)
PresentableTokens ==
    tokens \cup {Garbage, Forged, AccessToken, ExpiredAccessToken, Incomplete}

\* the member and invitation routes run to completion in one step and write
\* neither through another request's Session nor a guarded entity
InFlightUnchanged == UNCHANGED <<users, sessions, entities, flush_exc>>

RouteVarsUnchanged ==
    /\ UNCHANGED <<dashboards, charts, connections, data_sources,
                   connection_permissions, workspace_settings>>
    /\ InFlightUnchanged

\* main.py: set_secret_key(settings.SECRET_KEY) at start-up
SetSecretKey ==
    /\ INVITATION_SECRET_KEY = None
    /\ INVITATION_SECRET_KEY' = SECRET_KEY
    /\ resp' = Response("set_secret_key", 0, "ok", None, FALSE)
    /\ UNCHANGED <<members, workspaces, current_workspace_id, tokens, now,
                   redeemed>>
    /\ RouteVarsUnchanged

Tick ==
    /\ now + INVITATION_TOKEN_EXPIRE_DAYS <= MaxTime
    /\ now' = now + INVITATION_TOKEN_EXPIRE_DAYS
    /\ resp' = Response("tick", 0, "ok", None, FALSE)
    /\ UNCHANGED <<members, workspaces, current_workspace_id, INVITATION_SECRET_KEY,
                   tokens, redeemed>>
    /\ RouteVarsUnchanged

InviteMember ==
    \E u \in Users, w \in WorkspaceIds, e \in InviteEmails, r \in Roles :
        LET res == invite_member(DB, u, w, e, r)
        IN  /\ Cardinality(tokens \cup res.sent) <= MaxTokens
            /\ tokens' = tokens \cup res.sent
            /\ resp' = Response("invite_member", res.status, res.detail,
                                get_user_role(DB, u, w), FALSE)
            /\ UNCHANGED <<members, workspaces, current_workspace_id,
                           INVITATION_SECRET_KEY, now, redeemed>>
            /\ RouteVarsUnchanged

AcceptInvitation ==
    \E u \in Users, t \in PresentableTokens :
        LET res == accept_invitation(DB, t, u, user_email(u))
        IN  /\ members' = res.members
            /\ resp' = Response("accept_invitation", res.status, res.detail,
                                None, TRUE)
            /\ redeemed' = IF res.status = 200 THEN redeemed \cup {t} ELSE redeemed
            /\ UNCHANGED <<workspaces, current_workspace_id, INVITATION_SECRET_KEY,
                           tokens, now>>
            /\ RouteVarsUnchanged

RemoveMember ==
    \E u \in Users, w \in WorkspaceIds, target \in Users :
        LET res == remove_member(DB, u, w, target)
        IN  /\ members' = res.members
            /\ resp' = Response("remove_member", res.status, res.detail,
                                get_user_role(DB, u, w), u = target)
            /\ UNCHANGED <<workspaces, current_workspace_id, INVITATION_SECRET_KEY,
                           tokens, now, redeemed>>
            /\ RouteVarsUnchanged

UpdateMemberRole ==
    \E u \in Users, w \in WorkspaceIds, target \in Users,
       r \in Roles \cup {"owner"} :
        LET res == update_member_role(DB, u, w, target, r)
        IN  /\ members' = res.members
            /\ resp' = Response("update_member_role", res.status, res.detail,
                                get_user_role(DB, u, w), u = target)
            /\ UNCHANGED <<workspaces, current_workspace_id, INVITATION_SECRET_KEY,
                           tokens, now, redeemed>>
            /\ RouteVarsUnchanged

delete_workspace_admin_allowed(db, user_id, workspace_id) ==
    IF ~is_workspace_admin(db, user_id, workspace_id)
    THEN [status |-> 404, detail |-> "Resource not found", db |-> db]
    ELSE [status |-> 204, detail |-> "ok",
          db |-> [db EXCEPT
                    !.workspaces = @ \ workspace_rows(db, workspace_id),
                    !.members = {m \in @ : m.workspace_id # workspace_id},
                    !.dashboards = {d \in @ : d.workspace_id # workspace_id},
                    !.workspace_settings =
                        {ws \in @ : ws.workspace_id # workspace_id}]]

\* DELETE /workspaces/{workspace_id}: the session cascades to the members, the
\* dashboards and the settings of the workspace (relationship cascade)
delete_workspace(db, user_id, workspace_id) ==
    IF ~validate_workspace_ownership(db, user_id, workspace_id)
    THEN [status |-> 404, detail |-> "Resource not found", db |-> db]
    ELSE [status |-> 204, detail |-> "ok",
          db |-> [db EXCEPT
                    !.workspaces = @ \ workspace_rows(db, workspace_id),
                    !.members = {m \in @ : m.workspace_id # workspace_id},
                    !.dashboards = {d \in @ : d.workspace_id # workspace_id},
                    !.workspace_settings =
                        {ws \in @ : ws.workspace_id # workspace_id}]]

DeleteWorkspace ==
    \E u \in Users, w \in WorkspaceIds :
        LET res == delete_workspace(DB, u, w)
        IN  /\ workspaces' = res.db.workspaces
            /\ members' = res.db.members
            /\ dashboards' = res.db.dashboards
            /\ workspace_settings' = res.db.workspace_settings
            /\ resp' = Response("delete_workspace", res.status, res.detail,
                                get_user_role(DB, u, w), FALSE)
            /\ UNCHANGED <<current_workspace_id, INVITATION_SECRET_KEY, tokens, now,
                           charts, connections, data_sources, connection_permissions,
                           redeemed>>
            /\ InFlightUnchanged

\* users 1 and 2 have registered (each the creator and admin of a workspace of
\* their own, which is their current workspace); user 3 is a seeded account
InitTables ==
    /\ members = {Member(1, 1, "admin", 1), Member(2, 2, "admin", 2)}
    /\ workspaces = {Workspace(1, 1, <<"u1s-workspace">>),
                     Workspace(2, 2, <<"u2s-workspace">>)}
    /\ current_workspace_id = [u \in Users |-> IF u = 3 THEN NoId ELSE u]
    /\ workspace_settings = {WorkspaceSettings(1), WorkspaceSettings(2)}
    /\ users = {User(u, username(u)) : u \in Users}

\* no request is in flight and no guarded row has been written
InitInFlight ==
    /\ sessions = [s \in Sessions |-> Idle]
    /\ entities = {}
    /\ flush_exc = None

Init ==
    /\ InitTables
    /\ INVITATION_SECRET_KEY = None
    /\ tokens = {}
    /\ now = 0
    /\ dashboards = {}
    /\ charts = {}
    /\ connections = {}
    /\ data_sources = {}
    /\ connection_permissions = {}
    /\ resp = Response("init", 0, "ok", None, FALSE)
    /\ redeemed = {}
    /\ InitInFlight

Next ==
    \/ SetSecretKey
    \/ Tick
    \/ InviteMember
    \/ AcceptInvitation
    \/ RemoveMember
    \/ UpdateMemberRole
    \/ DeleteWorkspace

Spec == Init /\ [][Next]_vars


\* ---------------------------------------------------------- resource routes
TotalRows(db) ==
    Cardinality(db.dashboards) + Cardinality(db.charts)
        + Cardinality(db.connections) + Cardinality(db.data_sources)

\* db.commit() of a handled request. The responses of these routes are the
\* results of the handlers above; resp keeps those of the member routes.
Commit(res) ==
    /\ dashboards' = res.db.dashboards
    /\ charts' = res.db.charts
    /\ connections' = res.db.connections
    /\ data_sources' = res.db.data_sources
    /\ connection_permissions' = res.db.connection_permissions
    /\ UNCHANGED <<members, workspaces, current_workspace_id, INVITATION_SECRET_KEY,
                   tokens, now, resp, redeemed, workspace_settings>>
    /\ InFlightUnchanged

RowIds == 1..MaxRows
OptionalIds == {NoId} \cup RowIds

\* POST /workspaces/{workspace_id}/switch
switch_workspace(db, user_id, workspace_id) ==
    IF ~check_permission(db, user_id, workspace_id, "viewer")
    THEN HTTPException(db, 404, "Workspace not found")
    ELSE Result(200, "Workspace switched successfully", {}, {},
                [db EXCEPT !.current_workspace_id[user_id] = workspace_id])

SwitchWorkspace ==
    \E u \in Users, w \in WorkspaceIds :
        LET res == switch_workspace(DB, u, w)
        IN  /\ current_workspace_id' = res.db.current_workspace_id
            /\ UNCHANGED <<members, workspaces, INVITATION_SECRET_KEY, tokens, now,
                           resp, redeemed>>
            /\ RouteVarsUnchanged

ListDashboards ==
    \E u \in Users, h \in Headers :
        LET res == list_dashboards(DB, u, Request(h))
        IN  /\ TotalRows(res.db) <= MaxRows
            /\ Commit(res)

GetDashboard ==
    \E u \in Users, h \in Headers, id \in RowIds :
        LET res == get_dashboard(DB, u, Request(h), id)
        IN  /\ TotalRows(res.db) <= MaxRows
            /\ Commit(res)

CreateDashboard ==
    \E u \in Users, h \in Headers, name \in Names :
        LET res == create_dashboard(DB, u, Request(h), name)
        IN  /\ TotalRows(res.db) <= MaxRows
            /\ Commit(res)

UpdateDashboard ==
    \E u \in Users, h \in Headers, id \in RowIds, name \in Names :
        LET res == update_dashboard(DB, u, Request(h), id, name)
        IN  /\ TotalRows(res.db) <= MaxRows
            /\ Commit(res)

DeleteDashboard ==
    \E u \in Users, h \in Headers, id \in RowIds :
        LET res == delete_dashboard(DB, u, Request(h), id)
        IN  /\ TotalRows(res.db) <= MaxRows
            /\ Commit(res)

GenerateShareToken ==
    \E u \in Users, h \in Headers, id \in RowIds :
        LET res == generate_share_token(DB, u, Request(h), id)
        IN  /\ TotalRows(res.db) <= MaxRows
            /\ Commit(res)

RevokeShareToken ==
    \E u \in Users, h \in Headers, id \in RowIds :
        LET res == revoke_share_token(DB, u, Request(h), id)
        IN  /\ TotalRows(res.db) <= MaxRows
            /\ Commit(res)

ListCharts ==
    \E u \in Users, h \in Headers, ds \in OptionalIds :
        LET res == list_charts(DB, u, Request(h), ds)
        IN  /\ TotalRows(res.db) <= MaxRows
            /\ Commit(res)

GetChart ==
    \E u \in Users, h \in Headers, id \in RowIds :
        LET res == get_chart(DB, u, Request(h), id)
        IN  /\ TotalRows(res.db) <= MaxRows
            /\ Commit(res)

CreateChart ==
    \E u \in Users, h \in Headers, name \in Names, ds \in OptionalIds :
        LET res == create_chart(DB, u, Request(h), name, ds)
        IN  /\ TotalRows(res.db) <= MaxRows
            /\ Commit(res)

UpdateChart ==
    \E u \in Users, h \in Headers, id \in RowIds, name \in Names, ds \in OptionalIds :
        LET res == update_chart(DB, u, Request(h), id, name, ds)
        IN  /\ TotalRows(res.db) <= MaxRows
            /\ Commit(res)

DeleteChart ==
    \E u \in Users, h \in Headers, id \in RowIds :
        LET res == delete_chart(DB, u, Request(h), id)
        IN  /\ TotalRows(res.db) <= MaxRows
            /\ Commit(res)

ListConnections ==
    \E u \in Users, h \in Headers :
        LET res == list_connections(DB, u, Request(h))
        IN  /\ TotalRows(res.db) <= MaxRows
            /\ Commit(res)

GetConnection ==
    \E u \in Users, h \in Headers, id \in RowIds :
        LET res == get_connection(DB, u, Request(h), id)
        IN  /\ TotalRows(res.db) <= MaxRows
            /\ Commit(res)

CreateConnection ==
    \E u \in Users, h \in Headers, name \in Names, config \in Configs :
        LET res == create_connection(DB, u, Request(h), name, config)
        IN  /\ TotalRows(res.db) <= MaxRows
            /\ Commit(res)

UpdateConnection ==
    \E u \in Users, h \in Headers, id \in RowIds, name \in Names, config \in Configs :
        LET res == update_connection(DB, u, Request(h), id, name, config)
        IN  /\ TotalRows(res.db) <= MaxRows
            /\ Commit(res)

DeleteConnection ==
    \E u \in Users, h \in Headers, id \in RowIds :
        LET res == delete_connection(DB, u, Request(h), id)
        IN  /\ TotalRows(res.db) <= MaxRows
            /\ Commit(res)

ListDataSources ==
    \E u \in Users, h \in Headers, conn \in OptionalIds :
        LET res == list_data_sources(DB, u, Request(h), conn)
        IN  /\ TotalRows(res.db) <= MaxRows
            /\ Commit(res)

GetDataSource ==
    \E u \in Users, h \in Headers, id \in RowIds :
        LET res == get_data_source(DB, u, Request(h), id)
        IN  /\ TotalRows(res.db) <= MaxRows
            /\ Commit(res)

CreateDataSource ==
    \E u \in Users, h \in Headers, conn \in RowIds, ident \in Names :
        LET res == create_data_source(DB, u, Request(h), conn, ident)
        IN  /\ TotalRows(res.db) <= MaxRows
            /\ Commit(res)

UpdateDataSource ==
    \E u \in Users, h \in Headers, id \in RowIds, ident \in Names :
        LET res == update_data_source(DB, u, Request(h), id, ident)
        IN  /\ TotalRows(res.db) <= MaxRows
            /\ Commit(res)

DeleteDataSource ==
    \E u \in Users, h \in Headers, id \in RowIds :
        LET res == delete_data_source(DB, u, Request(h), id)
        IN  /\ TotalRows(res.db) <= MaxRows
            /\ Commit(res)

DiscoverDataSources ==
    \E u \in Users, h \in Headers, conn \in RowIds, reachable \in BOOLEAN :
        LET res == discover_data_sources(DB, u, Request(h), conn, reachable)
        IN  /\ TotalRows(res.db) <= MaxRows
            /\ Commit(res)

\* the resource routes run after start-up, with the memberships in place: users
\* 1 and 2 as in InitTables, and user 3 holding a role in workspace 1 (by
\* invitation from user 1)
InitRoutes ==
    /\ \E r \in Roles :
          members = {Member(1, 1, "admin", 1), Member(2, 2, "admin", 2),
                     Member(1, 3, r, 1)}
    /\ workspaces = {Workspace(1, 1, <<"u1s-workspace">>),
                     Workspace(2, 2, <<"u2s-workspace">>)}
    /\ current_workspace_id = [u \in Users |-> IF u = 3 THEN NoId ELSE u]
    /\ workspace_settings = {WorkspaceSettings(1), WorkspaceSettings(2)}
    /\ users = {User(u, username(u)) : u \in Users}
    /\ redeemed = {}
    /\ InitInFlight
    /\ INVITATION_SECRET_KEY = SECRET_KEY
    /\ tokens = {}
    /\ now = 0
    /\ dashboards = {}
    /\ charts = {}
    /\ connections = {}
    /\ data_sources = {}
    /\ connection_permissions = {}
    /\ resp = Response("init", 0, "ok", None, FALSE)

NextRoutes ==
    \/ SwitchWorkspace
    \/ ListDashboards
    \/ GetDashboard
    \/ CreateDashboard
    \/ UpdateDashboard
    \/ DeleteDashboard
    \/ GenerateShareToken
    \/ RevokeShareToken
    \/ ListCharts
    \/ GetChart
    \/ CreateChart
    \/ UpdateChart
    \/ DeleteChart
    \/ ListConnections
    \/ GetConnection
    \/ CreateConnection
    \/ UpdateConnection
    \/ DeleteConnection
    \/ ListDataSources
    \/ GetDataSource
    \/ CreateDataSource
    \/ UpdateDataSource
    \/ DeleteDataSource
    \/ DiscoverDataSources

SpecRoutes == InitRoutes /\ [][NextRoutes]_vars

(***************************************************************************)
(* Requests that overlap.  Each request has its own Session on the shared  *)
(* SQLite file: a SELECT reads what is committed, the first INSERT of a    *)
(* Session takes the file's write lock, which is kept until the commit or  *)
(* the rollback, and what a Session has flushed is visible to the others   *)
(* only once it commits.                                                   *)
(***************************************************************************)
WorkspaceNames == {"Foo", "Foo 1", "foo's Workspace", "!"}
UserNames == {"u1", "foo"}

\* re.sub(r'[^a-z0-9-]', '', name.lower().replace(' ', '-')), hyphens
\* collapsed and stripped, 'workspace' when nothing is left; "foo-1" is held
\* as <<"foo", 1>>
slugify(name) ==
    CASE name = "Foo" -> <<"foo">>
      [] name = "Foo 1" -> <<"foo", 1>>
      [] name = "foo's Workspace" -> <<"foos-workspace">>
      [] name = "u1's Workspace" -> <<"u1s-workspace">>
      [] OTHER -> <<"workspace">>

\* the counter loop of both slug generators: the base if no workspace has it,
\* else the base with the smallest counter from 1 that no workspace has
first_free_slug(db, base_slug) ==
    LET taken == {w.slug : w \in db.workspaces}
    IN  IF base_slug \notin taken THEN base_slug
        ELSE LET counter == CHOOSE c \in 1..(Cardinality(taken) + 1) :
                               /\ Append(base_slug, c) \notin taken
                               /\ \A b \in 1..(c - 1) : Append(base_slug, b) \in taken
             IN  Append(base_slug, counter)

\* routes/workspaces.py
generate_unique_slug(db, name) == first_free_slug(db, slugify(name))

\* WorkspaceFactory._generate_unique_slug
factory_generate_unique_slug(db, name) == first_free_slug(db, slugify(name))

\* f"{user_data.username}'s Workspace"
default_workspace_name(name) ==
    IF name = "foo" THEN "foo's Workspace" ELSE "u1's Workspace"

\* Session.commit(): the rows the Session holds become visible together
commit(db, rows) ==
    [db EXCEPT !.workspaces = @ \cup rows.workspaces,
               !.members = @ \cup rows.members,
               !.workspace_settings = @ \cup rows.workspace_settings,
               !.users = @ \cup rows.users]

NoRows == [workspaces |-> {}, members |-> {}, workspace_settings |-> {}, users |-> {}]

rollback_keeps_flushed(db, rows) == commit(db, rows)

\* get_db closes the Session of a request that raised: what it had flushed is
\* rolled back
rollback(db, rows) == db

\* the Sessions that hold the write lock: they have flushed and not yet
\* committed
WritePcs == {"workspace_flushed", "user_flushed", "factory_flushed"}
locked_by_other(s) == \E o \in Sessions \ {s} : sessions[o].pc \in WritePcs

Done(sess, status, detail) ==
    [sess EXCEPT !.pc = "done", !.status = status, !.detail = detail]

TxnVarsUnchanged ==
    UNCHANGED <<INVITATION_SECRET_KEY, tokens, now, dashboards, charts, connections,
                data_sources, connection_permissions, resp, redeemed, entities,
                flush_exc>>

TablesUnchanged ==
    UNCHANGED <<members, workspaces, current_workspace_id, workspace_settings, users>>

\* the tables after a commit or a rollback
Store(db) ==
    /\ workspaces' = db.workspaces
    /\ members' = db.members
    /\ workspace_settings' = db.workspace_settings
    /\ users' = db.users

\* ---- POST /workspaces
\* generate_unique_slug reads the committed workspaces
StartCreateWorkspace(s) ==
    \E u \in Users, name \in WorkspaceNames :
        /\ sessions[s].pc = "idle"
        /\ Cardinality(workspaces)
              + Cardinality({o \in Sessions : sessions[o].pc \notin {"idle", "done"}})
              < MaxWorkspaces
        /\ sessions' = [sessions EXCEPT ![s] =
              [op |-> "create_workspace", pc |-> "slug_generated", user |-> u,
               name |-> name, slug |-> generate_unique_slug(DB, name),
               cur |-> get_current_user(DB, u).current_workspace_id,
               rows |-> NoRows, status |-> 0, detail |-> None]]
        /\ TablesUnchanged
        /\ TxnVarsUnchanged

\* db.add(workspace); db.flush(): the INSERT waits for the write lock and
\* fails on the unique index of workspaces.slug
FlushWorkspace(s) ==
    /\ sessions[s].pc = "slug_generated"
    /\ ~locked_by_other(s)
    /\ LET sess == sessions[s]
       IN  sessions' = [sessions EXCEPT ![s] =
              IF \E w \in workspaces : w.slug = sess.slug
              THEN Done(sess, 500, "IntegrityError: workspaces.slug")
              ELSE [sess EXCEPT !.pc = "workspace_flushed",
                                !.rows.workspaces =
                                    {Workspace(next_id(workspaces), sess.user,
                                               sess.slug)}]]
    /\ TablesUnchanged
    /\ TxnVarsUnchanged

\* the member and the settings are added, current_workspace_id is set if the
\* user had none when the request loaded it, and db.commit()
CommitWorkspace(s) ==
    /\ sessions[s].pc = "workspace_flushed"
    /\ LET sess == sessions[s]
           id == (CHOOSE w \in sess.rows.workspaces : TRUE).id
           rows == [sess.rows EXCEPT
                      !.members = {Member(id, sess.user, "admin", sess.user)},
                      !.workspace_settings = {WorkspaceSettings(id)}]
       IN  /\ Store(commit(DB, rows))
           /\ current_workspace_id' =
                 IF sess.cur = NoId
                 THEN [current_workspace_id EXCEPT ![sess.user] = id]
                 ELSE current_workspace_id
           /\ sessions' = [sessions EXCEPT ![s] = Done(sess, 201, "ok")]
    /\ TxnVarsUnchanged

\* ---- POST /auth/register
\* the username and the e-mail are looked up in the committed users
StartRegister(s) ==
    \E name \in UserNames :
        /\ sessions[s].pc = "idle"
        /\ Cardinality(workspaces)
              + Cardinality({o \in Sessions : sessions[o].pc \notin {"idle", "done"}})
              < MaxWorkspaces
        /\ sessions' = [sessions EXCEPT ![s] =
              LET sess == [op |-> "register", pc |-> "user_checked", user |-> NoId,
                           name |-> name, slug |-> <<>>, cur |-> NoId,
                           rows |-> NoRows, status |-> 0, detail |-> None]
              IN  IF \E u \in users : u.username = name
                  THEN Done(sess, 400, "Username already taken")
                  ELSE sess]
        /\ TablesUnchanged
        /\ TxnVarsUnchanged

\* db.add(user); db.flush(): takes the write lock, fails on users.username
FlushUser(s) ==
    /\ sessions[s].pc = "user_checked"
    /\ ~locked_by_other(s)
    /\ LET sess == sessions[s]
       IN  sessions' = [sessions EXCEPT ![s] =
              IF \E u \in users : u.username = sess.name
              THEN Done(sess, 500, "IntegrityError: users.username")
              ELSE [sess EXCEPT !.pc = "user_flushed", !.user = next_id(users),
                                !.rows.users = {User(next_id(users), sess.name)}]]
    /\ TablesUnchanged
    /\ TxnVarsUnchanged

\* WorkspaceFactory.create_workspace up to its db.flush(): the slug is read and
\* the workspace inserted under the write lock the Session already holds
FactoryCreateWorkspace(s) ==
    /\ sessions[s].pc = "user_flushed"
    /\ LET sess == sessions[s]
           slug == factory_generate_unique_slug(DB, default_workspace_name(sess.name))
       IN  sessions' = [sessions EXCEPT ![s] =
              [sess EXCEPT !.pc = "factory_flushed", !.slug = slug,
                           !.rows.workspaces =
                               {Workspace(next_id(workspaces), sess.user, slug)}]]
    /\ TablesUnchanged
    /\ TxnVarsUnchanged

\* the rest of the factory, user.current_workspace_id, and db.commit()
CommitRegister(s) ==
    /\ sessions[s].pc = "factory_flushed"
    /\ LET sess == sessions[s]
           id == (CHOOSE w \in sess.rows.workspaces : TRUE).id
           rows == [sess.rows EXCEPT
                      !.members = {Member(id, sess.user, "admin", sess.user)},
                      !.workspace_settings = {WorkspaceSettings(id)}]
       IN  /\ Store(commit(DB, rows))
           /\ current_workspace_id' =
                 [u \in DOMAIN current_workspace_id \cup {sess.user} |->
                     IF u = sess.user THEN id ELSE current_workspace_id[u]]
           /\ sessions' = [sessions EXCEPT ![s] = Done(sess, 201, "ok")]
    /\ TxnVarsUnchanged

\* ---- POST /workspaces/accept-invitation
\* the token is validated, the membership and the workspace are looked up
StartAccept(s) ==
    \E u \in Users, t \in tokens :
        /\ sessions[s].pc = "idle"
        /\ sessions' = [sessions EXCEPT ![s] =
              LET res == accept_invitation(DB, t, u, user_email(u))
                  sess == [op |-> "accept_invitation", pc |-> "member_checked",
                           user |-> u, name |-> None, slug |-> <<>>, cur |-> NoId,
                           rows |-> [NoRows EXCEPT !.members = res.members \ members],
                           status |-> 0, detail |-> None]
              IN  IF res.status # 200 THEN Done(sess, res.status, res.detail)
                  ELSE sess]
        /\ TablesUnchanged
        /\ TxnVarsUnchanged

\* db.add(member); db.commit(): the INSERT waits for the write lock and fails
\* on the unique constraint uq_workspace_user
CommitAccept(s) ==
    /\ sessions[s].pc = "member_checked"
    /\ ~locked_by_other(s)
    /\ LET sess == sessions[s]
       IN  IF \E m \in sess.rows.members :
                 member_rows(DB, m.user_id, m.workspace_id) # {}
           THEN /\ Store(rollback(DB, sess.rows))
                /\ sessions' = [sessions EXCEPT ![s] =
                      Done(sess, 500, "IntegrityError: uq_workspace_user")]
           ELSE /\ Store(commit(DB, sess.rows))
                /\ sessions' = [sessions EXCEPT ![s] = Done(sess, 200, "ok")]
    /\ UNCHANGED current_workspace_id
    /\ TxnVarsUnchanged

\* ---- any request
\* sqlite3 gives up waiting for the write lock (5 seconds by default)
BusyTimeout(s) ==
    /\ sessions[s].pc \in {"slug_generated", "user_checked", "member_checked"}
    /\ locked_by_other(s)
    /\ sessions' = [sessions EXCEPT ![s] =
          Done(@, 500, "OperationalError: database is locked")]
    /\ TablesUnchanged
    /\ TxnVarsUnchanged

\* a request that has flushed raises before its commit (the process is
\* stopped, the disk is full, a later INSERT fails): get_db closes the Session
Fail(s) ==
    /\ sessions[s].pc \in WritePcs
    /\ Store(rollback(DB, sessions[s].rows))
    /\ sessions' = [sessions EXCEPT ![s] = Done(@, 500, "Internal Server Error")]
    /\ UNCHANGED current_workspace_id
    /\ TxnVarsUnchanged

\* the response has been sent
Respond(s) ==
    /\ sessions[s].pc = "done"
    /\ sessions' = [sessions EXCEPT ![s] = Idle]
    /\ TablesUnchanged
    /\ TxnVarsUnchanged

\* start-up is over; user 1 has invited the address of user 3 to workspace 1
InitTxn ==
    /\ InitTables
    /\ INVITATION_SECRET_KEY = SECRET_KEY
    /\ now = 0
    /\ tokens = {jwt_encode([type |-> "workspace_invitation", workspace_id |-> 1,
                             email |-> "u3@x.com", role |-> "editor",
                             invited_by |-> 1, iat |-> 0,
                             exp |-> INVITATION_TOKEN_EXPIRE_DAYS], SECRET_KEY)}
    /\ dashboards = {}
    /\ charts = {}
    /\ connections = {}
    /\ data_sources = {}
    /\ connection_permissions = {}
    /\ resp = Response("init", 0, "ok", None, FALSE)
    /\ redeemed = {}
    /\ InitInFlight

NextTxn ==
    \E s \in Sessions :
        \/ StartCreateWorkspace(s)
        \/ FlushWorkspace(s)
        \/ CommitWorkspace(s)
        \/ StartRegister(s)
        \/ FlushUser(s)
        \/ FactoryCreateWorkspace(s)
        \/ CommitRegister(s)
        \/ StartAccept(s)
        \/ CommitAccept(s)
        \/ BusyTimeout(s)
        \/ Fail(s)
        \/ Respond(s)

SpecTxn == InitTxn /\ [][NextTxn]_vars

(***************************************************************************)
(* Overlapping role changes and removals. Each request checks the caller's *)
(* permission with SELECTs of its own and writes in a later statement;     *)
(* the write locks the database only from the UPDATE or DELETE to the      *)
(* commit that follows it.                                                 *)
(***************************************************************************)
\* PATCH /workspaces/{workspace_id}/members/{user_id}/role up to member.role =
\* new_role: the checks, and the row as the request will write it
StartUpdateMemberRole(s) ==
    \E u \in Users, w \in WorkspaceIds, target \in Users, r \in Roles :
        /\ sessions[s].pc = "idle"
        /\ sessions' = [sessions EXCEPT ![s] =
              LET res == update_member_role(DB, u, w, target, r)
                  sess == [op |-> "update_member_role", pc |-> "role_checked",
                           user |-> u, name |-> None, slug |-> <<>>, cur |-> NoId,
                           rows |-> [NoRows EXCEPT
                                       !.members = member_rows(res, target, w)],
                           status |-> 0, detail |-> None]
              IN  IF res.status # 200 THEN Done(sess, res.status, res.detail)
                  ELSE sess]
        /\ TablesUnchanged
        /\ TxnVarsUnchanged

\* db.commit(): UPDATE workspace_members SET role = ? WHERE id = ?; a row
\* that another request has deleted meanwhile matches nothing (StaleDataError)
CommitUpdateMemberRole(s) ==
    /\ sessions[s].pc = "role_checked"
    /\ LET sess == sessions[s]
           m == CHOOSE m \in sess.rows.members : TRUE
           old == member_rows(DB, m.user_id, m.workspace_id)
       IN  IF old = {}
           THEN /\ UNCHANGED members
                /\ sessions' = [sessions EXCEPT ![s] =
                      Done(sess, 500, "StaleDataError")]
           ELSE /\ members' = (members \ old)
                                 \cup {[o EXCEPT !.role = m.role] : o \in old}
                /\ sessions' = [sessions EXCEPT ![s] = Done(sess, 200, "ok")]
    /\ UNCHANGED <<workspaces, current_workspace_id, workspace_settings, users>>
    /\ TxnVarsUnchanged

\* DELETE /workspaces/{workspace_id}/members/{user_id} up to db.delete(member)
StartRemoveMember(s) ==
    \E u \in Users, w \in WorkspaceIds, target \in Users :
        /\ sessions[s].pc = "idle"
        /\ sessions' = [sessions EXCEPT ![s] =
              LET res == remove_member(DB, u, w, target)
                  sess == [op |-> "remove_member", pc |-> "member_found",
                           user |-> u, name |-> None, slug |-> <<>>, cur |-> NoId,
                           rows |-> [NoRows EXCEPT
                                       !.members = members \ res.members],
                           status |-> 0, detail |-> None]
              IN  IF res.status # 204 THEN Done(sess, res.status, res.detail)
                  ELSE sess]
        /\ TablesUnchanged
        /\ TxnVarsUnchanged

\* db.commit(): DELETE FROM workspace_members WHERE id = ?
CommitRemoveMember(s) ==
    /\ sessions[s].pc = "member_found"
    /\ LET sess == sessions[s]
       IN  /\ members' = {m \in members :
                            ~\E d \in sess.rows.members :
                                /\ d.user_id = m.user_id
                                /\ d.workspace_id = m.workspace_id}
           /\ sessions' = [sessions EXCEPT ![s] = Done(sess, 204, "ok")]
    /\ UNCHANGED <<workspaces, current_workspace_id, workspace_settings, users>>
    /\ TxnVarsUnchanged

\* users 2 and 3 have accepted invitations to workspace 1, user 2 as an admin
InitAdmins ==
    /\ \E r \in Roles :
          members = {Member(1, 1, "admin", 1), Member(2, 2, "admin", 2),
                     Member(1, 2, "admin", 1), Member(1, 3, r, 1)}
    /\ workspaces = {Workspace(1, 1, <<"u1s-workspace">>),
                     Workspace(2, 2, <<"u2s-workspace">>)}
    /\ current_workspace_id = [u \in Users |-> IF u = 3 THEN NoId ELSE u]
    /\ workspace_settings = {WorkspaceSettings(1), WorkspaceSettings(2)}
    /\ users = {User(u, username(u)) : u \in Users}
    /\ redeemed = {}
    /\ InitInFlight
    /\ INVITATION_SECRET_KEY = SECRET_KEY
    /\ tokens = {}
    /\ now = 0
    /\ dashboards = {}
    /\ charts = {}
    /\ connections = {}
    /\ data_sources = {}
    /\ connection_permissions = {}
    /\ resp = Response("init", 0, "ok", None, FALSE)

NextAdmins ==
    \E s \in Sessions :
        \/ StartUpdateMemberRole(s)
        \/ CommitUpdateMemberRole(s)
        \/ StartRemoveMember(s)
        \/ CommitRemoveMember(s)
        \/ Respond(s)

SpecAdmins == InitAdmins /\ [][NextAdmins]_vars

(***************************************************************************)
(* Connection permissions: the functions of core/connection_permissions.py *)
(* called on the connections the routes create, while an admin removes     *)
(* members and the users switch their current workspace.                   *)
(***************************************************************************)
\* POST /api/connections in workspace 1 or 2; a name is unique in a workspace
CreateNamedConnection ==
    \E u \in Users, h \in {"1", "2"} :
        LET res == create_connection(DB, u, Request(h), "a", "pw1")
        IN  /\ TotalRows(res.db) <= MaxRows
            /\ Commit(res)

GrantConnectionPermission ==
    \E c \in RowIds, u \in Users, granted_by \in Users,
       level \in {"owner", "editor", "viewer", "admin"} :
        LET res == grant_connection_permission(DB, c, u, level, granted_by)
        IN  /\ Cardinality(res.db.connection_permissions) <= MaxGrants
            /\ Commit(res)

RevokeConnectionPermission ==
    \E c \in RowIds, u \in Users :
        LET res == revoke_connection_permission(DB, c, u)
        IN  /\ res.status = 200
            /\ Commit(res)

\* user 2 (an admin of workspace 2) and user 3 have accepted invitations to
\* workspace 1
InitPerm ==
    /\ \E r \in Roles :
          members = {Member(1, 1, "admin", 1), Member(2, 2, "admin", 2),
                     Member(1, 2, "editor", 1), Member(1, 3, r, 1)}
    /\ workspaces = {Workspace(1, 1, <<"u1s-workspace">>),
                     Workspace(2, 2, <<"u2s-workspace">>)}
    /\ current_workspace_id = [u \in Users |-> IF u = 3 THEN NoId ELSE u]
    /\ workspace_settings = {WorkspaceSettings(1), WorkspaceSettings(2)}
    /\ users = {User(u, username(u)) : u \in Users}
    /\ redeemed = {}
    /\ InitInFlight
    /\ INVITATION_SECRET_KEY = SECRET_KEY
    /\ tokens = {}
    /\ now = 0
    /\ dashboards = {}
    /\ charts = {}
    /\ connections = {}
    /\ data_sources = {}
    /\ connection_permissions = {}
    /\ resp = Response("init", 0, "ok", None, FALSE)

NextPerm ==
    \/ CreateNamedConnection
    \/ GrantConnectionPermission
    \/ RevokeConnectionPermission
    \/ RemoveMember
    \/ SwitchWorkspace

SpecPerm == InitPerm /\ [][NextPerm]_vars

(***************************************************************************)
(* The data isolation guard: the before_insert and before_update listeners *)
(* that register_isolation_events attaches to the mapped classes, and the  *)
(* flush that calls them.                                                  *)
(***************************************************************************)
WORKSPACE_SCOPED_MODELS == {"Dashboard", "Chart", "Connection", "Log", "CSVData"}

\* the mapped classes that carry a workspace_id column
ScopedEntityTypes ==
    {"Chart", "Dashboard", "Connection", "DataSource", "Log", "CSVData"}

\* the attribute was not loaded when it was assigned
NO_VALUE == "NO_VALUE"

\* what the listener raises (None: nothing)
validate_workspace_id_on_insert(model_name, workspace_id) ==
    IF model_name \in WORKSPACE_SCOPED_MODELS /\ workspace_id = NoId
    THEN "WorkspaceIsolationError"
    ELSE None

\* deleted is history.deleted, committed_value is what committed_state holds
validate_workspace_id_on_update(model_name, has_changes, deleted, committed_value, new_id) ==
    IF model_name \notin WORKSPACE_SCOPED_MODELS \/ ~has_changes THEN None
    ELSE LET first == IF deleted # <<>> THEN deleted[1] ELSE NoId
             old_id == IF first = NoId /\ committed_value # NO_VALUE
                       THEN committed_value ELSE first
         IN  IF old_id # NoId /\ old_id # new_id
             THEN "WorkspaceIsolationError"
             ELSE None

\* the INSERT of a flush: the listener of a registered class, then the NOT NULL
\* constraint of the column (logs.workspace_id is nullable)
flush_insert(rows, model_name, workspace_id) ==
    LET exc == validate_workspace_id_on_insert(model_name, workspace_id)
    IN  IF exc # None THEN [exc |-> exc, rows |-> rows]
        ELSE IF workspace_id = NoId /\ model_name # "Log"
        THEN [exc |-> "IntegrityError", rows |-> rows]
        ELSE [exc |-> None,
              rows |-> rows \cup
                  {[model |-> model_name,
                    id |-> next_id({r \in rows : r.model = model_name}),
                    workspace_id |-> workspace_id, origin |-> workspace_id]}]

\* the UPDATE of a flush after target.workspace_id = new_id; an attribute that
\* was loaded leaves its old value in the history, one that was expired does
\* not; origin records the workspace_id the row was created with
flush_update(rows, target, new_id, loaded) ==
    LET exc == validate_workspace_id_on_update(
                   target.model, new_id # target.workspace_id \/ ~loaded,
                   IF loaded THEN <<target.workspace_id>> ELSE <<>>,
                   IF loaded THEN target.workspace_id ELSE NO_VALUE, new_id)
    IN  IF exc # None THEN [exc |-> exc, rows |-> rows]
        ELSE [exc |-> None,
              rows |-> (rows \ {target})
                          \cup {[target EXCEPT !.workspace_id = new_id]}]

GuardVarsUnchanged ==
    /\ TablesUnchanged
    /\ UNCHANGED <<INVITATION_SECRET_KEY, tokens, now, dashboards, charts,
                   connections, data_sources, connection_permissions, resp,
                   redeemed, sessions>>

\* a call site adds an instance of a mapped class and flushes
SessionInsert ==
    \E model_name \in ScopedEntityTypes, workspace_id \in {NoId} \cup WorkspaceIds :
        LET res == flush_insert(entities, model_name, workspace_id)
        IN  /\ Cardinality(res.rows) <= MaxEntities
            /\ entities' = res.rows
            /\ flush_exc' = res.exc
            /\ GuardVarsUnchanged

\* a call site assigns workspace_id on a persistent instance and flushes
SessionUpdate ==
    \E target \in entities, new_id \in WorkspaceIds, loaded \in BOOLEAN :
        LET res == flush_update(entities, target, new_id, loaded)
        IN  /\ entities' = res.rows
            /\ flush_exc' = res.exc
            /\ GuardVarsUnchanged

InitGuard ==
    /\ InitTables
    /\ INVITATION_SECRET_KEY = SECRET_KEY
    /\ now = 0
    /\ tokens = {}
    /\ dashboards = {}
    /\ charts = {}
    /\ connections = {}
    /\ data_sources = {}
    /\ connection_permissions = {}
    /\ resp = Response("init", 0, "ok", None, FALSE)
    /\ redeemed = {}
    /\ InitInFlight

NextGuard ==
    \/ SessionInsert
    \/ SessionUpdate

SpecGuard == InitGuard /\ [][NextGuard]_vars

(***************************************************************************)
(* Properties of the resource routes (checked under SpecRoutes).           *)
(***************************************************************************)
\* the user holds a membership in workspace w1 and none in workspace w2
MemberOnlyOf(u, w1, w2) ==
    /\ w1 # w2
    /\ member_rows(DB, u, w1) # {}
    /\ member_rows(DB, u, w2) = {}

Exposes(res, w) == \E row \in res.rows : row.workspace_id = w

\* C1 - read isolation: a user who is a member only of W1 is never returned an
\* entity of W2 by list_dashboards, get_dashboard, list_charts, get_chart,
\* list_connections, get_connection, list_data_sources, get_data_source or
\* discover_data_sources, whatever header value or entity id is supplied.
ReadIsolation ==
    \A u \in Users, w1 \in WorkspaceIds, w2 \in WorkspaceIds :
        MemberOnlyOf(u, w1, w2) =>
            \A h \in Headers :
                /\ ~Exposes(list_dashboards(DB, u, Request(h)), w2)
                /\ ~Exposes(list_connections(DB, u, Request(h)), w2)
                /\ \A id \in OptionalIds :
                      /\ ~Exposes(list_charts(DB, u, Request(h), id), w2)
                      /\ ~Exposes(list_data_sources(DB, u, Request(h), id), w2)
                /\ \A id \in RowIds :
                      /\ ~Exposes(get_dashboard(DB, u, Request(h), id), w2)
                      /\ ~Exposes(get_chart(DB, u, Request(h), id), w2)
                      /\ ~Exposes(get_connection(DB, u, Request(h), id), w2)
                      /\ ~Exposes(get_data_source(DB, u, Request(h), id), w2)
                      /\ \A reachable \in BOOLEAN :
                            ~Exposes(discover_data_sources(DB, u, Request(h), id,
                                                           reachable), w2)

\* the rows of workspace w in the four resource tables
RowsOf(db, w) ==
    [dashboards |-> {r \in db.dashboards : r.workspace_id = w},
     charts |-> {r \in db.charts : r.workspace_id = w},
     connections |-> {r \in db.connections : r.workspace_id = w},
     data_sources |-> {r \in db.data_sources : r.workspace_id = w}]

Keeps(res, w) == RowsOf(res.db, w) = RowsOf(DB, w)

\* C2 - write isolation: no create, update or delete of a dashboard, chart,
\* connection or data source issued by a user who is a member only of W1
\* inserts, changes or deletes a row of W2, whatever header value or entity id
\* is supplied: the rows of W2 are the same after the call.
WriteIsolation ==
    \A u \in Users, w1 \in WorkspaceIds, w2 \in WorkspaceIds :
        MemberOnlyOf(u, w1, w2) =>
            \A h \in Headers, name \in Names :
                /\ Keeps(create_dashboard(DB, u, Request(h), name), w2)
                /\ \A config \in Configs :
                      Keeps(create_connection(DB, u, Request(h), name, config), w2)
                /\ \A ds \in OptionalIds :
                      Keeps(create_chart(DB, u, Request(h), name, ds), w2)
                /\ \A id \in RowIds :
                      /\ Keeps(create_data_source(DB, u, Request(h), id, name), w2)
                      /\ Keeps(update_dashboard(DB, u, Request(h), id, name), w2)
                      /\ Keeps(update_data_source(DB, u, Request(h), id, name), w2)
                      /\ \A ds \in OptionalIds :
                            Keeps(update_chart(DB, u, Request(h), id, name, ds), w2)
                      /\ \A config \in Configs :
                            Keeps(update_connection(DB, u, Request(h), id, name,
                                                    config), w2)
                      /\ Keeps(delete_dashboard(DB, u, Request(h), id), w2)
                      /\ Keeps(delete_chart(DB, u, Request(h), id), w2)
                      /\ Keeps(delete_connection(DB, u, Request(h), id), w2)
                      /\ Keeps(delete_data_source(DB, u, Request(h), id), w2)

\* user 3, an editor of workspace 1 only, has written a dashboard there, and a
\* dashboard of workspace 2 exists that user 3 addresses by header and id: the
\* delete is refused as not found and nothing changes
WriteIsolationWitness ==
    /\ MemberOnlyOf(3, 1, 2)
    /\ \E d1 \in dashboards : d1.workspace_id = 1 /\ d1.created_by = 3
    /\ \E d2 \in dashboards :
          /\ d2.workspace_id = 2
          /\ delete_dashboard(DB, 3, Request("2"), d2.id).status = 404
          /\ delete_dashboard(DB, 3, Request("2"), d2.id).db = DB
          /\ update_dashboard(DB, 3, Request("2"), d2.id, "b").db = DB

\* C3 - connection credential layering: an editor or viewer of the workspace
\* who did not create connection C and holds no ConnectionPermission row on C
\* does not obtain C's decrypted configuration from get_connection or
\* list_connections.
CredentialLayering ==
    \A u \in Users, c \in connections :
        (/\ get_user_role(DB, u, c.workspace_id) \in {"editor", "viewer"}
         /\ c.created_by # u
         /\ get_user_connection_permission(DB, u, c.id) = None)
        => \A h \in Headers :
              /\ ~\E b \in get_connection(DB, u, Request(h), c.id).body :
                        b.id = c.id
                        /\ b.config = decrypt_connection_config(c.config)
              /\ ~\E b \in list_connections(DB, u, Request(h)).body :
                        b.id = c.id
                        /\ b.config = decrypt_connection_config(c.config)

\* the request resolves to a workspace in which the caller is no editor
NotEditor(u, h) ==
    LET ctx == get_workspace_id(Request(h), get_current_user(DB, u))
    IN  ctx.ok /\ ~is_workspace_editor_or_above(DB, u, ctx.workspace_id)

\* C4 - uniform not-found on denial: every route that denies a request
\* because the caller is not a member of the workspace or holds an
\* insufficient role answers 404, as for a missing resource, and never 403 or
\* another status (create, update, delete of dashboards, charts, connections
\* and data sources, and the workspace member routes).
UniformNotFound ==
    /\ \A u \in Users, h \in Headers :
          NotEditor(u, h) =>
              \A name \in Names, id \in RowIds :
                  /\ create_dashboard(DB, u, Request(h), name).status = 404
                  /\ update_dashboard(DB, u, Request(h), id, name).status = 404
                  /\ delete_dashboard(DB, u, Request(h), id).status = 404
                  /\ create_chart(DB, u, Request(h), name, NoId).status = 404
                  /\ update_chart(DB, u, Request(h), id, name, NoId).status = 404
                  /\ delete_chart(DB, u, Request(h), id).status = 404
                  /\ \A config \in Configs :
                        /\ create_connection(DB, u, Request(h), name,
                                             config).status = 404
                        /\ update_connection(DB, u, Request(h), id, name,
                                             config).status = 404
                  /\ delete_connection(DB, u, Request(h), id).status = 404
                  /\ create_data_source(DB, u, Request(h), id, name).status = 404
                  /\ update_data_source(DB, u, Request(h), id, name).status = 404
                  /\ delete_data_source(DB, u, Request(h), id).status = 404
    /\ \A u \in Users, w \in WorkspaceIds :
          ~is_workspace_admin(DB, u, w) =>
              \A target \in Users \ {u} :
                  /\ remove_member(DB, u, w, target).status = 404
                  /\ \A r \in Roles :
                        update_member_role(DB, u, w, target, r).status = 404
                  /\ \A e \in InviteEmails, r \in Roles :
                        invite_member(DB, u, w, e, r).status = 404

(***************************************************************************)
(* Properties of the member and invitation routes (checked under Spec).    *)
(***************************************************************************)
RequestedRoles == Roles \cup {"owner"}

\* C5 - no self-role-change: for every user A, workspace W and role r,
\* can_modify_member_role(A, A, W, r) is false, and update_member_role called
\* by a user on their own membership leaves that membership's role as it is.
NoSelfRoleChange ==
    \A A \in Users, W \in WorkspaceIds, r \in RequestedRoles :
        /\ ~can_modify_member_role(DB, A, A, W, r)
        /\ LET res == update_member_role(DB, A, W, A, r)
           IN  /\ res.status # 200
               /\ member_rows(res, A, W) = member_rows(DB, A, W)

\* an admin has asked to change their own role and was refused
NoSelfRoleChangeWitness ==
    /\ resp.op = "update_member_role"
    /\ resp.self
    /\ resp.actor_role = "admin"
    /\ resp.status = 403

\* C6 - role change is admin-only: update_member_role changes a role only
\* when the actor holds the admin role in W, is not the target, and the new
\* role's level is at most the actor's; for an actor who is an editor, a
\* viewer or no member of W the call is rejected and every membership row is
\* unchanged.
RoleChangeAdminOnly ==
    \A u \in Users, W \in WorkspaceIds, target \in Users, r \in RequestedRoles :
        LET res == update_member_role(DB, u, W, target, r)
            role == get_user_role(DB, u, W)
        IN  /\ res.members # members =>
                  /\ role = "admin"
                  /\ u # target
                  /\ ROLE_HIERARCHY_get(r) <= ROLE_HIERARCHY_get(role)
            /\ role \in {"editor", "viewer", None} =>
                  /\ res.status \in {400, 403, 404}
                  /\ res.members = members

\* an editor has asked to change another member's role and was refused
RoleChangeAdminOnlyWitness ==
    /\ resp.op = "update_member_role"
    /\ ~resp.self
    /\ resp.actor_role = "editor"
    /\ resp.status = 403
    /\ \E m \in members : m.role = "editor"

\* C7 - creator irremovability: remove_member never deletes the membership of
\* the workspace's creator, whoever calls it (admin, editor, viewer, non-member
\* or the creator); the call is rejected and the membership table is unchanged.
CreatorIrremovable ==
    \A u \in Users, w \in workspaces :
        LET res == remove_member(DB, u, w.id, w.created_by)
        IN  /\ res.status \in {400, 404}
            /\ res.members = members

\* an admin who is not the creator has asked to remove the creator, who is a
\* member, and was refused
CreatorIrremovableWitness ==
    /\ resp.op = "remove_member"
    /\ resp.actor_role = "admin"
    /\ ~resp.self
    /\ resp.detail = "Cannot remove workspace creator"
    /\ \A w \in workspaces : member_rows(DB, w.created_by, w.id) # {}

\* the database with the user's role in the workspace set to role
WithRole(db, user_id, workspace_id, role) ==
    [db EXCEPT !.members =
        {m \in @ : ~(m.user_id = user_id /\ m.workspace_id = workspace_id)}
            \cup {Member(workspace_id, user_id, role, user_id)}]

\* C8 - role monotonicity: if check_permission grants q to a user holding r2,
\* it grants q to the same user holding any r1 of a higher level, on the order
\* admin(3) > editor(2) > viewer(1); a user with no membership is granted
\* nothing.
RoleMonotonicity ==
    \A u \in Users, w \in WorkspaceIds, q \in RequestedRoles :
        /\ \A r1 \in Roles, r2 \in Roles :
              (/\ ROLE_HIERARCHY_get(r1) > ROLE_HIERARCHY_get(r2)
               /\ check_permission(WithRole(DB, u, w, r2), u, w, q))
              => check_permission(WithRole(DB, u, w, r1), u, w, q)
        /\ member_rows(DB, u, w) = {} => ~check_permission(DB, u, w, q)

\* a workspace with an admin and an editor, both granted the editor level, the
\* editor refused the admin level by invite_member, and an outsider
RoleMonotonicityWitness ==
    /\ resp.op = "invite_member"
    /\ resp.actor_role = "editor"
    /\ resp.status = 404
    /\ \E w \in WorkspaceIds, a \in Users, e \in Users, n \in Users :
          /\ get_user_role(DB, a, w) = "admin"
          /\ get_user_role(DB, e, w) = "editor"
          /\ check_permission(DB, a, w, "editor")
          /\ check_permission(DB, e, w, "editor")
          /\ ~check_permission(DB, e, w, "admin")
          /\ member_rows(DB, n, w) = {}
          /\ ~check_permission(DB, n, w, "viewer")

\* the token can be redeemed now by the user: it is not expired, its e-mail is
\* the user's ignoring case, the user holds no membership in its workspace,
\* and the workspace exists
Redeemable(payload, u) ==
    /\ payload.exp > now
    /\ lower(user_email(u)) = lower(payload.email)
    /\ member_rows(DB, u, payload.workspace_id) = {}
    /\ workspace_rows(DB, payload.workspace_id) # {}

Joined(res, u, W, r, inviter) ==
    /\ res.status = 200
    /\ res.members = members \cup {Member(W, u, r, inviter)}
    /\ Cardinality(member_rows(res, u, W)) = 1
    /\ res.body = [workspace_id |-> W, role |-> r]

\* C9 - invitation round-trip: a token produced by create_invitation_token(W,
\* email, r, inviter), for every role r, redeemed with accept_invitation
\* before expiry by a user whose e-mail equals the token's ignoring case and
\* who holds no membership in the existing workspace W, creates exactly one
\* membership (W, user) with role r and invited_by inviter, and returns W's id
\* and r.
InvitationRoundTrip ==
    /\ \A W \in WorkspaceIds, e \in InviteEmails, r \in Roles, inviter \in Users,
          u \in Users :
          LET c == create_invitation_token(W, e, r, inviter)
          IN  (/\ c.ok
               /\ lower(user_email(u)) = lower(e)
               /\ member_rows(DB, u, W) = {}
               /\ workspace_rows(DB, W) # {})
              => Joined(accept_invitation(DB, c.token, u, user_email(u)),
                        u, W, r, inviter)
    /\ \A t \in tokens, u \in Users :
          Redeemable(t.payload, u)
          => Joined(accept_invitation(DB, t, u, user_email(u)), u,
                    t.payload.workspace_id, t.payload.role, t.payload.invited_by)

\* an invitation was redeemed: the member it created carries the role and the
\* inviter of a token that was sent to the member's address
InvitationRoundTripWitness ==
    /\ resp.op = "accept_invitation"
    /\ resp.status = 200
    /\ \E m \in members, t \in tokens :
          /\ m.invited_by # m.user_id
          /\ t.payload.workspace_id = m.workspace_id
          /\ t.payload.role = m.role
          /\ t.payload.invited_by = m.invited_by
          /\ t.payload.email = lower(user_email(m.user_id))

AlreadyMember(res) ==
    /\ res.status = 400
    /\ res.detail = "You are already a member of this workspace"
    /\ res.members = members

\* C10 - redemption by an existing member: accept_invitation with a valid
\* token by a user who already holds a membership in the token's workspace
\* fails with the already-a-member outcome and leaves the membership table
\* unchanged; a token carrying a higher role does not change the user's role.
RedemptionByMember ==
    /\ \A t \in PresentableTokens, u \in Users :
          LET v == validate_invitation_token(t, user_email(u))
          IN  (v.ok /\ check_existing_membership(DB, u, v.payload.workspace_id))
              => AlreadyMember(accept_invitation(DB, t, u, user_email(u)))
    /\ \A W \in WorkspaceIds, e \in InviteEmails, r \in Roles, inviter \in Users,
          u \in Users :
          LET c == create_invitation_token(W, e, r, inviter)
          IN  (/\ c.ok
               /\ lower(user_email(u)) = lower(e)
               /\ check_existing_membership(DB, u, W))
              => AlreadyMember(accept_invitation(DB, c.token, u, user_email(u)))

\* a member has redeemed a token that carries a higher role than the one the
\* member holds, and was refused
RedemptionByMemberWitness ==
    /\ resp.op = "accept_invitation"
    /\ resp.detail = "You are already a member of this workspace"
    /\ \E m \in members, t \in tokens :
          /\ t.payload.workspace_id = m.workspace_id
          /\ t.payload.email = lower(user_email(m.user_id))
          /\ t.payload.exp > now
          /\ ROLE_HIERARCHY_get(t.payload.role) > ROLE_HIERARCHY_get(m.role)

\* a well-formed token that carries an e-mail other than the user's, ignoring
\* case
OtherAddress(t, u) ==
    /\ t.wellformed
    /\ "email" \in DOMAIN t.payload
    /\ lower(t.payload.email) # lower(user_email(u))

\* C11 - e-mail binding: accept_invitation with a token whose encoded e-mail
\* differs, ignoring case, from the accepting user's e-mail is rejected and
\* creates no membership, for every accepting user and every role in the
\* token; a token that decodes is rejected as being for a different address.
EmailBinding ==
    /\ \A t \in PresentableTokens, u \in Users :
          OtherAddress(t, u) =>
              LET res == accept_invitation(DB, t, u, user_email(u))
              IN  /\ res.status # 200
                  /\ res.members = members
                  /\ decode_invitation_token(t).ok =>
                        /\ res.status = 400
                        /\ res.detail = "This invitation is for a different email address"
    /\ \A W \in WorkspaceIds, e \in InviteEmails, r \in Roles, inviter \in Users,
          u \in Users :
          LET c == create_invitation_token(W, e, r, inviter)
          IN  (c.ok /\ lower(e) # lower(user_email(u))) =>
                  LET res == accept_invitation(DB, c.token, u, user_email(u))
                  IN  /\ res.status = 400
                      /\ res.detail = "This invitation is for a different email address"
                      /\ res.members = members

\* a user has presented an unexpired invitation that was sent to another
\* address, and was refused for that reason
EmailBindingWitness ==
    /\ resp.op = "accept_invitation"
    /\ resp.detail = "This invitation is for a different email address"
    /\ \E t \in tokens : t.payload.exp > now /\ t.sig = INVITATION_SECRET_KEY

\* the token carries the signature of the configured key
CorrectlySigned(t) == t.wellformed /\ t.sig = INVITATION_SECRET_KEY

\* the token's expiry has passed
Expired(t) == "exp" \in DOMAIN t.payload /\ t.payload.exp <= now

NoMembership(t) ==
    \A u \in Users :
        LET res == accept_invitation(DB, t, u, user_email(u))
        IN  res.status = 400 /\ res.members = members

RedeemedOnce ==
    \A t \in redeemed :
        ~Expired(t) =>
            \A u \in Users :
                accept_invitation(DB, t, u, user_email(u)).status # 200

(***************************************************************************)
(* Properties of overlapping requests (checked under SpecTxn).             *)
(***************************************************************************)
Finished(s, ops) == sessions[s].pc = "done" /\ sessions[s].op \in ops

\* C14 - concurrent slug assignment: when two workspace creations with the
\* same name overlap (through WorkspaceFactory.create_workspace or POST
\* /workspaces), both succeed, one workspace gets the base slug and the other
\* the base with a suffix, and no two workspaces ever share a slug.
ConcurrentSlugs ==
    /\ \A w1 \in workspaces, w2 \in workspaces : w1.slug = w2.slug => w1 = w2
    /\ \A s \in Sessions :
          Finished(s, {"create_workspace", "register"}) =>
              /\ sessions[s].detail # "IntegrityError: workspaces.slug"
              /\ sessions[s].status = 201 =>
                    \E w \in workspaces :
                        /\ w.slug = sessions[s].slug
                        /\ w.created_by = sessions[s].user

\* C15 - concurrent redemption: when two accept_invitation calls for the same
\* (workspace, user) pair overlap between the existence check and the insert,
\* at most one membership row for the pair exists afterwards and the call that
\* loses ends with the already-a-member outcome, not with a store error.
ConcurrentRedemption ==
    /\ \A u \in Users, w \in WorkspaceIds : Cardinality(member_rows(DB, u, w)) <= 1
    /\ \A s \in Sessions :
          (/\ Finished(s, {"accept_invitation"})
           /\ sessions[s].rows.members # {}
           /\ sessions[s].status # 200)
          => /\ sessions[s].status = 400
             /\ sessions[s].detail = "You are already a member of this workspace"

\* C16 - atomic workspace creation: in every committed state, each workspace
\* created by WorkspaceFactory.create_workspace (registration) or by POST
\* /workspaces has a membership row for its creator and exactly one
\* WorkspaceSettings row; the workspace row is never visible without them,
\* also when a step after the workspace insert fails.
CreationAtomic ==
    \A w \in workspaces :
        /\ \E m \in members :
              m.workspace_id = w.id /\ m.user_id = w.created_by /\ m.role = "admin"
        /\ Cardinality({ws \in workspace_settings : ws.workspace_id = w.id}) = 1

\* a creation has failed after it had inserted its workspace row, while a
\* workspace created by another request is committed and a third request holds
\* a workspace row that is not committed yet
CreationAtomicWitness ==
    /\ \E s \in Sessions :
          /\ Finished(s, {"create_workspace", "register"})
          /\ sessions[s].detail = "Internal Server Error"
          /\ sessions[s].rows.workspaces # {}
    /\ \E s \in Sessions :
          /\ sessions[s].pc \in {"workspace_flushed", "factory_flushed"}
          /\ sessions[s].rows.workspaces \cap workspaces = {}
    /\ \E w \in workspaces : w.id \notin WorkspaceIds

(***************************************************************************)
(* Properties of the data isolation guard (checked under SpecGuard).       *)
(***************************************************************************)
\* C17 - guard on create: an insert of an instance of any workspace-scoped
\* entity type (Connection, Dashboard, Chart, DataSource, Log, CSVData) whose
\* workspace_id is absent or null is rejected with WorkspaceIsolationError
\* before the write, and no row is stored.
GuardOnCreate ==
    \A model_name \in ScopedEntityTypes :
        LET res == flush_insert(entities, model_name, NoId)
        IN  /\ res.exc = "WorkspaceIsolationError"
            /\ res.rows = entities

\* C18 - tenant id is write-once: after any sequence of updates the committed
\* workspace_id of every workspace-scoped entity is the one it was created
\* with, and an update that would change it is rejected by
\* validate_workspace_id_on_update and is not committed.
TenantIdWriteOnce ==
    /\ \A row \in entities : row.workspace_id = row.origin
    /\ \A target \in entities, new_id \in WorkspaceIds, loaded \in BOOLEAN :
          new_id # target.workspace_id =>
              LET res == flush_update(entities, target, new_id, loaded)
              IN  /\ res.exc = "WorkspaceIsolationError"
                  /\ res.rows = entities

(***************************************************************************)
(* Properties of the workspace context (checked under SpecRoutes).         *)
(***************************************************************************)
\* C19 - tenant context resolution: the workspace id a workspace-scoped route
\* acts on is the X-Workspace-ID header if supplied, else the workspace_id
\* path parameter, else the workspace_id query parameter, else the caller's
\* stored current_workspace_id; when none of the four yields an id the request
\* fails with 400 and reads or writes no workspace-scoped data.
TenantContextResolution ==
    \A u \in Users, h \in {None, "1", "2"}, q \in {None, "1", "2"} :
        LET request == RequestWithQuery(h, q)
            current_user == get_current_user(DB, u)
            expected ==
                IF h # None THEN int(h)
                ELSE IF request.path_workspace_id # None
                THEN int(request.path_workspace_id)
                ELSE IF q # None THEN int(q)
                ELSE current_user.current_workspace_id
            ctx == get_workspace_id(request, current_user)
        IN  IF expected = NoId
            THEN /\ ~ctx.ok
                 /\ ctx.status = 400
                 /\ \A name \in Names :
                       LET res == create_dashboard(DB, u, request, name)
                       IN  res.status = 400 /\ res.db = DB
                 /\ list_dashboards(DB, u, request).rows = {}
            ELSE /\ ctx.ok
                 /\ ctx.workspace_id = expected

(***************************************************************************)
(* Properties of workspace deletion (checked under Spec).                  *)
(***************************************************************************)
\* the user recorded as the creator of workspace w
IsCreator(u, w) == \E ws \in workspaces : ws.id = w /\ ws.created_by = u

\* C20 - workspace deletion is creator-only: delete_workspace(W) succeeds only
\* when the caller is the user recorded as W's creator; for every other
\* caller, other admins of W included, it is rejected with not-found and W,
\* its memberships, its settings and its resources are unchanged.
CreatorOnlyDeletion ==
    \A u \in Users, w \in WorkspaceIds :
        LET res == delete_workspace(DB, u, w)
        IN  /\ res.status = 204 => IsCreator(u, w)
            /\ ~IsCreator(u, w) =>
                  /\ res.status = 404
                  /\ res.detail = "Resource not found"
                  /\ res.db = DB

\* an admin of the workspace who did not create it was refused
CreatorOnlyDeletionWitness ==
    /\ resp.op = "delete_workspace"
    /\ resp.status = 404
    /\ resp.actor_role = "admin"
    /\ \E u \in Users, w \in WorkspaceIds :
          /\ is_workspace_admin(DB, u, w)
          /\ ~IsCreator(u, w)
          /\ workspace_rows(DB, w) # {}

(***************************************************************************)
(* Properties of the signing key (checked under Spec, which starts before  *)
(* set_secret_key has run).                                                *)
(***************************************************************************)
\* an invitation signed with the deployment's key by an earlier run of the
\* server, still in its seven days
EarlierToken ==
    jwt_encode([type |-> "workspace_invitation", workspace_id |-> 1,
                email |-> "u3@x.com", role |-> "editor", invited_by |-> 1,
                iat |-> 0, exp |-> 1000], SECRET_KEY)

\* C21 - signing key initialised before use: while set_secret_key has not been
\* called (INVITATION_SECRET_KEY is None) create_invitation_token produces no
\* token and accept_invitation creates no membership, both failing with a
\* configuration error; and no token is ever accepted unless its signature
\* verifies under the configured key.
KeyBeforeUse ==
    /\ INVITATION_SECRET_KEY = None =>
          /\ tokens = {}
          /\ redeemed = {}
          /\ \A u \in Users, w \in WorkspaceIds, e \in InviteEmails, r \in Roles :
                LET t == create_invitation_token(w, e, r, u)
                    res == invite_member(DB, u, w, e, r)
                IN  /\ ~t.ok
                    /\ t.exc = "InvitationError"
                    /\ res.sent = {}
                    /\ res.status # 200
          /\ \A u \in Users, t \in PresentableTokens \cup {EarlierToken} :
                LET res == accept_invitation(DB, t, u, user_email(u))
                IN  /\ res.status = 500
                    /\ res.members = members
    /\ \A u \in Users, t \in PresentableTokens \cup {EarlierToken} :
          accept_invitation(DB, t, u, user_email(u)).status = 200 =>
              /\ INVITATION_SECRET_KEY # None
              /\ t.wellformed
              /\ t.sig = INVITATION_SECRET_KEY

\* a redemption arrived before set_secret_key and was refused with the
\* configuration error
KeyBeforeUseWitness ==
    /\ INVITATION_SECRET_KEY = None
    /\ resp.op = "accept_invitation"
    /\ resp.status = 500
    /\ resp.detail = "Internal server error"

(***************************************************************************)
(* Properties of the responses to a refused invitation (checked under      *)
(* Spec).                                                                  *)
(***************************************************************************)
\* C22 - indistinguishable invitation failures: the response of
\* accept_invitation (status and detail text) is the same for an expired
\* token and for an invalid (malformed or wrongly signed) token, so that it
\* does not tell which of the two failures occurred.
IndistinguishableFailures ==
    INVITATION_SECRET_KEY # None =>
        \A u \in Users, t1 \in PresentableTokens, t2 \in PresentableTokens :
            (CorrectlySigned(t1) /\ Expired(t1) /\ ~CorrectlySigned(t2)) =>
                LET r1 == accept_invitation(DB, t1, u, user_email(u))
                    r2 == accept_invitation(DB, t2, u, user_email(u))
                IN  /\ r1.status = r2.status
                    /\ r1.detail = r2.detail

(***************************************************************************)
(* Properties of the connection permissions (checked under SpecPerm).      *)
(***************************************************************************)
\* the scale owner(3) > editor(2) > viewer(1)
Scale(level) ==
    CASE level = "owner" -> 3
      [] level = "editor" -> 2
      [] level = "viewer" -> 1

\* user u holds an explicit grant on connection c of at least the level
GrantedAtLeast(u, c, level) ==
    \E cp \in connection_permissions :
        /\ cp.connection_id = c
        /\ cp.user_id = u
        /\ cp.permission_level \in {"owner", "editor", "viewer"}
        /\ Scale(cp.permission_level) >= Scale(level)

\* user u created connection c, or is an admin of its workspace
CreatorOrAdmin(u, c) ==
    \E conn \in connections :
        /\ conn.id = c
        /\ \/ conn.created_by = u
           \/ \E m \in members : /\ m.user_id = u
                                 /\ m.workspace_id = conn.workspace_id
                                 /\ m.role = "admin"

\* C23 - check_connection_access(user, C, required) is true exactly when C
\* exists and the user created C, or is admin of C's workspace, or holds a
\* ConnectionPermission row on C whose level is >= required on the scale
\* owner(3) > editor(2) > viewer(1); so an explicit viewer grant satisfies
\* required = viewer but neither editor nor owner.
ConnectionAccessRule ==
    \A u \in Users, c \in 1..(MaxRows + 1),
       required \in {"owner", "editor", "viewer"} :
        check_connection_access(DB, u, c, required)
            <=> /\ \E conn \in connections : conn.id = c
                /\ CreatorOrAdmin(u, c) \/ GrantedAtLeast(u, c, required)

\* a member who is neither the creator nor an admin holds a viewer grant: it
\* gives viewer access and no more
ConnectionAccessRuleWitness ==
    \E u \in Users, c \in RowIds :
        /\ ~CreatorOrAdmin(u, c)
        /\ get_user_connection_permission(DB, u, c) = "viewer"
        /\ check_connection_access(DB, u, c, "viewer")
        /\ ~check_connection_access(DB, u, c, "editor")
        /\ ~check_connection_access(DB, u, c, "owner")

\* C24 - can_manage_connection_permissions(user, C) is true exactly when the
\* user created C, or is admin of C's workspace, or holds an explicit owner
\* grant on C; a user whose only access to C is an explicit editor or viewer
\* grant, or a workspace editor/viewer role, gets false (and so cannot raise
\* their own level through an operation gated by the predicate).
ManageRule ==
    \A u \in Users, c \in 1..(MaxRows + 1) :
        /\ can_manage_connection_permissions(DB, u, c)
              <=> /\ \E conn \in connections : conn.id = c
                  /\ CreatorOrAdmin(u, c) \/ GrantedAtLeast(u, c, "owner")
        /\ (/\ ~CreatorOrAdmin(u, c)
            /\ get_user_connection_permission(DB, u, c) \in {None, "editor", "viewer"})
              => ~can_manage_connection_permissions(DB, u, c)

\* a workspace editor or viewer who did not create the connection holds an
\* editor grant on it: they have editor access and may not manage permissions
ManageRuleWitness ==
    \E u \in Users, c \in RowIds :
        /\ \E conn \in connections :
              /\ conn.id = c
              /\ conn.created_by # u
              /\ get_user_role(DB, u, conn.workspace_id) \in {"editor", "viewer"}
        /\ get_user_connection_permission(DB, u, c) = "editor"
        /\ check_connection_access(DB, u, c, "editor")
        /\ ~can_manage_connection_permissions(DB, u, c)

\* C30 - connection access implies workspace membership: after any sequence
\* of connection creations, grants, revocations and member removals,
\* check_connection_access(user, C, level) and
\* get_user_accessible_connections(user, W) grant access to connection C only
\* to users who currently hold a membership in C's workspace.
AccessImpliesMembership ==
    \A u \in Users :
        /\ \A c \in RowIds, level \in {"owner", "editor", "viewer"} :
              check_connection_access(DB, u, c, level) =>
                  \E conn \in connections :
                      /\ conn.id = c
                      /\ member_rows(DB, u, conn.workspace_id) # {}
        /\ \A w \in WorkspaceIds :
              get_user_accessible_connections(DB, u, w) # {} =>
                  member_rows(DB, u, w) # {}

(***************************************************************************)
(* Properties of the users' current workspace (checked under SpecPerm).    *)
(***************************************************************************)
\* C29 - default workspace is a member workspace: in every reachable state
\* each user's current_workspace_id is either null or the id of an existing
\* workspace in which that user currently holds a membership.
DefaultIsMemberWorkspace ==
    \A u \in Users :
        \/ current_workspace_id[u] = NoId
        \/ /\ workspace_rows(DB, current_workspace_id[u]) # {}
           /\ member_rows(DB, u, current_workspace_id[u]) # {}

(***************************************************************************)
(* Properties of the dashboard routes (checked under SpecRoutes).          *)
(***************************************************************************)
\* caller u may change dashboard d: an admin of its workspace, or an editor
\* of it who created d
MayChange(u, d) ==
    \/ get_user_role(DB, u, d.workspace_id) = "admin"
    \/ /\ get_user_role(DB, u, d.workspace_id) = "editor"
       /\ d.created_by = u

\* the request succeeded, or it was refused and wrote nothing
SucceedsIff(res, allowed) ==
    IF allowed THEN res.status \in {200, 204}
    ELSE res.status = 404 /\ res.db = DB

\* C25 - dashboard ownership rule: update_dashboard, delete_dashboard,
\* generate_share_token and revoke_share_token on dashboard D of workspace W
\* succeed for caller U if and only if U is admin of W, or U is editor of W
\* and D.created_by = U; a viewer, and an editor acting on a dashboard created
\* by another user, are denied and D is unchanged.
DashboardOwnership ==
    \A u \in Users, h \in Headers, d \in dashboards :
        LET ctx == get_workspace_id(Request(h), get_current_user(DB, u))
        IN  (ctx.ok /\ ctx.workspace_id = d.workspace_id) =>
                /\ \A name \in Names :
                      SucceedsIff(update_dashboard(DB, u, Request(h), d.id, name),
                                  MayChange(u, d))
                /\ SucceedsIff(delete_dashboard(DB, u, Request(h), d.id),
                               MayChange(u, d))
                /\ SucceedsIff(generate_share_token(DB, u, Request(h), d.id),
                               MayChange(u, d))
                /\ SucceedsIff(revoke_share_token(DB, u, Request(h), d.id),
                               MayChange(u, d))

\* an editor has shared a dashboard of their own, and the workspace holds a
\* dashboard of another user that the editor is refused to share
DashboardOwnershipWitness ==
    \E u \in Users, own \in dashboards, other \in dashboards :
        /\ get_user_role(DB, u, own.workspace_id) = "editor"
        /\ own.created_by = u
        /\ own.is_public
        /\ other.workspace_id = own.workspace_id
        /\ other.created_by # u
        /\ generate_share_token(DB, u, Request("1"), other.id).status = 404
        /\ generate_share_token(DB, u, Request("1"), other.id).detail
              = "You can only share your own dashboards"

(***************************************************************************)
(* Properties of the issue of invitations (checked under Spec).            *)
(***************************************************************************)
\* C26 - invitations are issued by admins only: invite_member(W, email, role)
\* produces a token only when the caller holds the admin role in W at the
\* time of the call, the token naming that caller and W; an editor, a viewer
\* or a non-member is issued none; and accept_invitation creates a membership
\* only from a token that invite_member issued.
IssuedByAdmins ==
    /\ \A u \in Users, w \in WorkspaceIds, e \in InviteEmails, r \in Roles :
          LET res == invite_member(DB, u, w, e, r)
          IN  /\ res.sent # {} => get_user_role(DB, u, w) = "admin"
              /\ get_user_role(DB, u, w) # "admin" =>
                    res.sent = {} /\ res.status = 404
              /\ \A t \in res.sent : /\ t.payload.invited_by = u
                                     /\ t.payload.workspace_id = w
    /\ (resp.op = "invite_member" /\ resp.status = 200) => resp.actor_role = "admin"
    /\ \A u \in Users, t \in PresentableTokens :
          LET res == accept_invitation(DB, t, u, user_email(u))
          IN  res.status = 200 =>
                  /\ t \in tokens
                  /\ \E m \in res.members \ members :
                        /\ m.invited_by = t.payload.invited_by
                        /\ m.workspace_id = t.payload.workspace_id

\* a member who joined by an admin's invitation and is an editor or a viewer
\* has asked for an invitation and was issued none
IssuedByAdminsWitness ==
    /\ resp.op = "invite_member"
    /\ resp.status = 404
    /\ resp.actor_role \in {"editor", "viewer"}
    /\ \E m \in members : m.invited_by # m.user_id /\ m.role \in {"editor", "viewer"}

(***************************************************************************)
(* Properties of the admins of a workspace.                                *)
(***************************************************************************)
\* C27 - every workspace keeps an admin (checked under SpecAdmins): in every
\* reachable state, those reached by interleaving concurrent update_member_role
\* and remove_member requests of different admins included (each request
\* checks its permission before its write), every existing workspace has at
\* least one membership with role admin.
EveryWorkspaceHasAdmin ==
    \A ws \in workspaces :
        \E m \in members : m.workspace_id = ws.id /\ m.role = "admin"

\* C28 - creator stays admin (checked under Spec): in every reachable state
\* the creator (Workspace.created_by) of every existing workspace holds a
\* membership in that workspace whose role is admin.
CreatorStaysAdmin ==
    \A ws \in workspaces :
        \E m \in members :
            /\ m.workspace_id = ws.id
            /\ m.user_id = ws.created_by
            /\ m.role = "admin"

====
